---- MODULE Spec2Model ----
(***************************************************************************)
(* A model of rustLetLang: the bytecode interpreter (interpreter.rs), the  *)
(* IR lowering (ir.rs) and the optimizer passes (optimize/), the bytecode  *)
(* compiler's local numbering and constant interning (compiler.rs), the    *)
(* Core list natives (lib_core.rs) and the type checker's scopes           *)
(* (typechecker.rs).                                                       *)
(*                                                                         *)
(* Floats are modelled by integers; strings by TLA+ strings.               *)
(***************************************************************************)
EXTENDS Integers, Sequences, FiniteSets, TLC

VARIABLES
  \* ---- interpreter.rs: the host stack of Machine::execute activations
  frames,     \* sequence of activations [func, locals, stack, index], innermost last
  result,     \* what the outermost execute returned: Running / Ok / Err / Panic
  input,      \* the entry function and argument the run was started with
  \* ---- the front end: parser output -> typechecker -> ir -> optimize
  stage,      \* how far the module has come: parsed / checked / lowered / optimized
  source,     \* the parsed module: its function declarations in source order
  checked,    \* check_module's output
  lowered,    \* compile_ir_module's output: IrModule.functions
  optimized,  \* the bodies after each successive run of Optimizer::optimize
  \* ---- compiler.rs: compile_module
  module_context,  \* the ModuleContext: constant tables, compiled nested functions
  raw_funcs,       \* the module-level BitFunctions compiled so far, by name
  dec_index,       \* how many of module.functions compile_module has compiled
  \* ---- runtime.rs / lib_core.rs: the list values of a run
  heap,       \* every Rc<ListValue> allocated so far, in allocation order
  native_call, \* the last native call of the List module: function, arguments, result
  \* ---- typechecker.rs: the Scope of one check_module
  the_scope,    \* static_scope, block_stack and closures
  scope_result, \* the last call on the Scope: the method, its arguments, what it returned
  \* ---- typechecker.rs: one call of fill_shape
  fill_call     \* the shape it is given and what it returned

vmVars == <<frames, result, input>>
pipeVars == <<stage, source, checked, lowered, optimized>>
compVars == <<module_context, raw_funcs, dec_index>>
listVars == <<heap, native_call>>
scopeVars == <<the_scope, scope_result>>
fillVars == <<fill_call>>

vars == <<frames, result, input, stage, source, checked, lowered, optimized,
          module_context, raw_funcs, dec_index, heap, native_call, the_scope, scope_result,
          fill_call>>

\* what the interpreter never touches, and what the front end never touches
notVM == <<pipeVars, compVars, listVars, scopeVars, fillVars>>
notPipe == <<vmVars, compVars, listVars, scopeVars, fillVars>>
notList == <<vmVars, pipeVars, compVars, scopeVars, fillVars>>
notScope == <<vmVars, pipeVars, compVars, listVars, fillVars>>
notFill == <<vmVars, pipeVars, compVars, listVars, scopeVars>>

\* the parts of the state a run of one component leaves at rest
VMIdle == frames = << >> /\ result = [t |-> "Idle"] /\ input = [entry |-> "none", n |-> 0]
CompilerIdle == module_context = << >> /\ raw_funcs = << >> /\ dec_index = 0
ListIdle == heap = << >> /\ native_call = [fn |-> "none"]
ScopeIdle == the_scope = << >> /\ scope_result = [op |-> "none"]
FillIdle == fill_call = [op |-> "none"]

(***************************************************************************)
(* Bounds of the model.                                                    *)
(***************************************************************************)
\* largest argument a run is started with (the number of loop iterations)
MaxN == 3

(***************************************************************************)
(* runtime.rs: Value                                                       *)
(***************************************************************************)
Null == [t |-> "Null"]
True == [t |-> "True"]
False == [t |-> "False"]
Float(n) == [t |-> "Float", v |-> n]
Str(s) == [t |-> "String", v |-> s]
Function(h) == [t |-> "Function", h |-> h]

(***************************************************************************)
(* interpreter.rs: the implementors of RunFunction, as handle values.      *)
(***************************************************************************)
BitHandle(name) == [k |-> "Bit", name |-> name]
NativeHandle(name) == [k |-> "Native", name |-> name]
ClosureFunction(func, closures) == [k |-> "Closure", func |-> func, closures |-> closures]
RecursiveFunction(func) == [k |-> "Recursive", func |-> func]

\* Machine::new: the names installed in core_functions
FloatOps == {"+", "-", "*"}
CompareOps == {"==", "!=", ">", ">=", "<", "<="}
core_functions == FloatOps \cup CompareOps

\* float_op / float_compare_op: the native closures
NativeApply(name, args) ==
  IF Len(args) = 2 /\ args[1].t = "Float" /\ args[2].t = "Float"
  THEN LET l == args[1].v
           r == args[2].v
           b(x) == IF x THEN True ELSE False
       IN [ok |-> TRUE,
           value |-> CASE name = "+" -> Float(l + r)
                       [] name = "-" -> Float(l - r)
                       [] name = "*" -> Float(l * r)
                       [] name = "==" -> b(l = r)
                       [] name = "!=" -> b(l # r)
                       [] name = ">" -> b(l > r)
                       [] name = ">=" -> b(l >= r)
                       [] name = "<" -> b(l < r)
                       [] name = "<=" -> b(l <= r)]
  ELSE [ok |-> FALSE, value |-> Null]

(***************************************************************************)
(* bytecode.rs: Instruction                                                *)
(***************************************************************************)
NoOp == [op |-> "NoOp"]
Duplicate == [op |-> "Duplicate"]
Pop == [op |-> "Pop"]
Swap == [op |-> "Swap"]
LoadConstNull == [op |-> "LoadConstNull"]
LoadConstTrue == [op |-> "LoadConstTrue"]
LoadConstFalse == [op |-> "LoadConstFalse"]
LoadConstString(id) == [op |-> "LoadConstString", const_id |-> id]
LoadConstFunction(id) == [op |-> "LoadConstFunction", const_id |-> id]
LoadConstFloat(v) == [op |-> "LoadConstFloat", value |-> v]
LoadValue(l) == [op |-> "LoadValue", local |-> l]
StoreValue(l) == [op |-> "StoreValue", local |-> l]
CallStatic(id) == [op |-> "CallStatic", func_id |-> id]
CallDynamic(n) == [op |-> "CallDynamic", param_count |-> n]
BuildClosure(n, id) == [op |-> "BuildClosure", param_count |-> n, func_id |-> id]
BuildRecursiveFunction == [op |-> "BuildRecursiveFunction"]
Return == [op |-> "Return"]
Branch(j) == [op |-> "Branch", jump |-> j]
Jump(j) == [op |-> "Jump", jump |-> j]
Debug == [op |-> "Debug"]
Error == [op |-> "Error"]

(***************************************************************************)
(* The BitApplication the machine runs: one package, one module.  Every    *)
(* entry function takes the iteration count n as its only argument.        *)
(*                                                                         *)
(*   loop(n)       = if (n == 0) { 0 } else { loop(n - 1) }   (CallStatic) *)
(*   hloop(f, n)   = if (n == 0) { 0 } else { f(f, n - 1) }   (CallDynamic)*)
(*   kloop[c](f,n) = if (n == 0) { c } else { f(f, n - 1) }   (a closure)  *)
(*   rloop[self](n)= if (n == 0) { 0 } else { self(n - 1) }   (recursive)  *)
(*   cloop[c,self](n) = if (n == 0) { c } else { self(n - 1) }             *)
(*   count(n)      = if (n == 0) { 0 } else { 1 + count(n - 1) }           *)
(*   ping(n)       = if (n == 0) { 0 } else { pong(n - 1) }                *)
(*   pong(n)       = if (n == 0) { 0 } else { ping(n - 1) }                *)
(***************************************************************************)
Package == "Test"
Module == "Basic"

\* BitModule.function_refs (ids are 0-based in the code: id i is entry i + 1)
function_ref_names ==
  << "==", "-", "+", "loop", "hloop", "kloop", "rloop", "cloop", "count", "ping", "pong",
     "nothere", "<" >>

string_constants == << "hello" >>

RefId(name) == (CHOOSE i \in 1..Len(function_ref_names) : function_ref_names[i] = name) - 1

\* if (local[slot] == 0) { base } else { call } with a Return lifted into both arms
LoopBody(slot, base, call) ==
  << LoadValue(slot), LoadConstFloat(0), CallStatic(RefId("==")),
     Branch(Len(base) + 1) >> \o base \o << Return >> \o call \o << Return >>

\* local[slot] - 1
Dec(slot) == << LoadValue(slot), LoadConstFloat(1), CallStatic(RefId("-")) >>

BitFunction(name, args, max_locals, body) ==
  [package |-> Package, module |-> Module, name |-> name,
   shape |-> [fn |-> TRUE, args |-> args], max_locals |-> max_locals, body |-> body]

(***************************************************************************)
(* The emitter's translation of a nested Branch into Branch and Jump       *)
(* instructions, and the bodies it is run on here.  The operations other   *)
(* than Branch are written as the instructions they become.                *)
(***************************************************************************)
\* ir.rs: Ir::Branch
IrBranch(then_block, else_block) ==
  [op |-> "Branch", then_block |-> then_block, else_block |-> else_block]

\* Branch{then, else}: the then-body gets a trailing Jump over the else-body unless
\* its last instruction is Return; Branch skips the then-body
EmitBranch(then_body, else_body) ==
  LET then_full == IF then_body # << >> /\ then_body[Len(then_body)] = Return
                   THEN then_body
                   ELSE Append(then_body, Jump(Len(else_body)))
  IN << Branch(Len(then_full)) >> \o then_full \o else_body

RECURSIVE EmitBody(_)
EmitBody(body) ==
  IF body = << >> THEN << >>
  ELSE (IF "then_block" \in DOMAIN body[1]
        THEN EmitBranch(EmitBody(body[1].then_block), EmitBody(body[1].else_block))
        ELSE << body[1] >>) \o EmitBody(Tail(body))

\* local 0 < c and local 0 == c
Less(c) == << LoadValue(0), LoadConstFloat(c), CallStatic(RefId("<")) >>
Equal(c) == << LoadValue(0), LoadConstFloat(c), CallStatic(RefId("==")) >>

\* the arms of an if that is not in tail position: nothing, one or two operations,
\* an inner if whose arms are empty or not, with or without something after it.
\* b tells the arms of one Branch from those of the other, c is what the inner
\* if compares the argument with.
OpenArms(b, c) ==
  << << >>, << LoadConstFloat(b + 1) >>, << LoadConstFloat(b + 1), LoadConstFloat(b + 2) >>,
     Equal(c) \o << IrBranch(<< >>, << >>) >>,
     Equal(c) \o << IrBranch(<< LoadConstFloat(b + 3) >>, << >>) >>,
     Equal(c) \o << IrBranch(<< >>, << LoadConstFloat(b + 4) >>) >>,
     Equal(c) \o << IrBranch(<< LoadConstFloat(b + 3) >>, << LoadConstFloat(b + 4) >>) >>,
     Equal(c) \o << IrBranch(<< LoadConstFloat(b + 3) >>, << LoadConstFloat(b + 4) >>),
                    LoadConstFloat(b + 5) >> >>

\* the arms of an if in tail position after lift-return: every path ends in Return
ClosedArms(b, c) ==
  << << LoadConstFloat(b + 1), Return >>,
     << LoadConstFloat(b + 1), LoadConstFloat(b + 2), Return >>,
     Equal(c) \o << IrBranch(<< LoadConstFloat(b + 3), Return >>,
                             << LoadConstFloat(b + 4), Return >>) >> >>

\* the names of the entries: row i, column j holds the if with then-arm i and else-arm j
OpenNames ==
  <<
     << "open_11", "open_12", "open_13", "open_14", "open_15", "open_16", "open_17", "open_18" >>,
     << "open_21", "open_22", "open_23", "open_24", "open_25", "open_26", "open_27", "open_28" >>,
     << "open_31", "open_32", "open_33", "open_34", "open_35", "open_36", "open_37", "open_38" >>,
     << "open_41", "open_42", "open_43", "open_44", "open_45", "open_46", "open_47", "open_48" >>,
     << "open_51", "open_52", "open_53", "open_54", "open_55", "open_56", "open_57", "open_58" >>,
     << "open_61", "open_62", "open_63", "open_64", "open_65", "open_66", "open_67", "open_68" >>,
     << "open_71", "open_72", "open_73", "open_74", "open_75", "open_76", "open_77", "open_78" >>,
     << "open_81", "open_82", "open_83", "open_84", "open_85", "open_86", "open_87", "open_88" >> >>
ClosedNames ==
  <<
     << "closed_11", "closed_12", "closed_13" >>,
     << "closed_21", "closed_22", "closed_23" >>,
     << "closed_31", "closed_32", "closed_33" >> >>

BranchEntries ==
  {OpenNames[i][j] : i, j \in 1..Len(OpenNames)}
    \cup {ClosedNames[i][j] : i, j \in 1..Len(ClosedNames)}

\* if (n < 2) { arm i } else { arm j }, followed by one operation and Return when
\* the arms are open
BranchIr ==
  [name \in BranchEntries |->
    IF \E i, j \in 1..Len(OpenNames) : OpenNames[i][j] = name
    THEN LET ij == CHOOSE ij \in (1..Len(OpenNames)) \X (1..Len(OpenNames)) :
                     OpenNames[ij[1]][ij[2]] = name
         IN Less(2) \o << IrBranch(OpenArms(10, 0)[ij[1]], OpenArms(20, 2)[ij[2]]),
                          LoadConstFloat(30), Return >>
    ELSE LET ij == CHOOSE ij \in (1..Len(ClosedNames)) \X (1..Len(ClosedNames)) :
                     ClosedNames[ij[1]][ij[2]] = name
         IN Less(2) \o << IrBranch(ClosedArms(10, 0)[ij[1]], ClosedArms(20, 2)[ij[2]]) >>]

\* the entry functions whose body has a runtime fault
FaultEntries ==
  {"fault_pop", "fault_load", "fault_store", "fault_callstatic", "fault_calldynamic",
   "fault_jump", "fault_jump_back", "fault_branch_back", "fault_branch", "fault_end",
   "fault_error"}

\* BitModule.functions
functions ==
  [name \in {"loop", "hloop", "kloop", "rloop", "cloop", "count", "ping", "pong",
             "main_loop", "main_plain", "main_rec", "main_closure", "main_recclosure",
             "main_count", "main_ping", "main_misc", "main_bad"} \cup FaultEntries
            \cup BranchEntries |->
    CASE name \in BranchEntries -> BitFunction(name, 1, 1, EmitBody(BranchIr[name]))
      [] name = "loop" ->
           BitFunction(name, 1, 1,
             LoopBody(0, << LoadConstFloat(0) >>, Dec(0) \o << CallStatic(RefId("loop")) >>))
      [] name = "hloop" ->
           BitFunction(name, 2, 2,
             LoopBody(1, << LoadConstFloat(0) >>,
                      << LoadValue(0), LoadValue(0) >> \o Dec(1) \o << CallDynamic(2) >>))
      [] name = "kloop" ->
           \* locals: captured c, then the arguments f and n
           BitFunction(name, 2, 3,
             LoopBody(2, << LoadValue(0) >>,
                      << LoadValue(1), LoadValue(1) >> \o Dec(2) \o << CallDynamic(2) >>))
      [] name = "rloop" ->
           \* locals: the recursive handle, the argument n, and a slot never stored to
           BitFunction(name, 1, 3,
             LoopBody(1, << LoadConstFloat(0) >>,
                      << LoadValue(0) >> \o Dec(1) \o << CallDynamic(1) >>))
      [] name = "cloop" ->
           \* locals: captured c, then the recursive handle, then the argument n
           BitFunction(name, 1, 3,
             LoopBody(2, << LoadValue(0) >>,
                      << LoadValue(1) >> \o Dec(2) \o << CallDynamic(1) >>))
      [] name = "count" ->
           BitFunction(name, 1, 1,
             LoopBody(0, << LoadConstFloat(0) >>,
                      << LoadConstFloat(1) >> \o Dec(0) \o
                      << CallStatic(RefId("count")), CallStatic(RefId("+")) >>))
      [] name = "ping" ->
           BitFunction(name, 1, 1,
             LoopBody(0, << LoadConstFloat(0) >>, Dec(0) \o << CallStatic(RefId("pong")) >>))
      [] name = "pong" ->
           BitFunction(name, 1, 1,
             LoopBody(0, << LoadConstFloat(0) >>, Dec(0) \o << CallStatic(RefId("ping")) >>))
      [] name = "main_loop" ->
           BitFunction(name, 1, 1, << LoadValue(0), CallStatic(RefId("loop")), Return >>)
      [] name = "main_plain" ->
           BitFunction(name, 1, 1,
             << LoadConstFunction(RefId("hloop")), Duplicate, LoadValue(0),
                CallDynamic(2), Return >>)
      [] name = "main_rec" ->
           BitFunction(name, 1, 1,
             << LoadConstFunction(RefId("rloop")), BuildRecursiveFunction, LoadValue(0),
                CallDynamic(1), Return >>)
      [] name = "main_closure" ->
           BitFunction(name, 1, 1,
             << LoadConstFloat(7), BuildClosure(1, RefId("kloop")), Duplicate,
                LoadValue(0), CallDynamic(2), Return >>)
      [] name = "main_recclosure" ->
           BitFunction(name, 1, 1,
             << LoadConstFloat(7), BuildClosure(1, RefId("cloop")), BuildRecursiveFunction,
                LoadValue(0), CallDynamic(1), Return >>)
      [] name = "main_count" ->
           BitFunction(name, 1, 1, << LoadValue(0), CallStatic(RefId("count")), Return >>)
      [] name = "main_ping" ->
           BitFunction(name, 1, 1, << LoadValue(0), CallStatic(RefId("ping")), Return >>)
      [] name = "main_misc" ->
           BitFunction(name, 1, 2,
             << NoOp, Debug, LoadConstNull, Pop, LoadConstTrue, LoadConstFalse, Swap,
                Pop, Pop, LoadValue(0), LoadConstFloat(0), CallStatic(RefId("==")),
                Branch(2), LoadConstString(0), Return,
                LoadValue(0), StoreValue(1), Jump(1), Error, LoadValue(1), Return >>)
      [] name = "main_bad" ->
           BitFunction(name, 1, 1,
             << LoadValue(0), LoadConstFloat(0), CallStatic(RefId("==")),
                Branch(1), Error,
                LoadValue(0), LoadConstFloat(1), CallStatic(RefId("==")),
                Branch(1), CallStatic(RefId("nothere")), NoOp >>)
      \* one body for each runtime fault
      [] name = "fault_pop" -> BitFunction(name, 1, 1, << Pop, LoadValue(0), Return >>)
      [] name = "fault_load" -> BitFunction(name, 1, 1, << LoadValue(1), Return >>)
      [] name = "fault_store" ->
           BitFunction(name, 1, 1, << LoadConstNull, StoreValue(1), LoadValue(0), Return >>)
      [] name = "fault_callstatic" ->
           BitFunction(name, 1, 1,
             << LoadValue(0), LoadValue(0), CallStatic(RefId("+")) >>)
      [] name = "fault_calldynamic" ->
           BitFunction(name, 1, 1,
             << LoadConstFunction(RefId("loop")), LoadValue(0), CallDynamic(1) >>)
      [] name = "fault_jump" -> BitFunction(name, 1, 1, << Jump(-2), LoadValue(0), Return >>)
      [] name = "fault_jump_back" ->
           BitFunction(name, 1, 1, << NoOp, Jump(-2), LoadValue(0), Return >>)
      [] name = "fault_branch_back" ->
           BitFunction(name, 1, 1, << LoadConstFalse, Branch(-3), LoadValue(0), Return >>)
      [] name = "fault_branch" ->
           BitFunction(name, 1, 1, << LoadValue(0), Branch(1), LoadValue(0), Return >>)
      [] name = "fault_end" -> BitFunction(name, 1, 1, << LoadValue(0), Pop >>)
      [] name = "fault_error" -> BitFunction(name, 1, 1, << LoadValue(0), Error, Return >>)]

Entries ==
  {"main_loop", "main_plain", "main_rec", "main_closure", "main_recclosure",
   "main_count", "main_ping", "main_misc", "main_bad"} \cup FaultEntries
    \cup BranchEntries

(***************************************************************************)
(* interpreter.rs: RunFunction::get_shape, execute, unwrap_as_bit_function *)
(***************************************************************************)
RECURSIVE get_shape(_)
get_shape(h) ==
  CASE h.k = "Bit" -> functions[h.name].shape
    [] h.k = "Native" -> [fn |-> TRUE, args |-> 2]
    [] h.k = "Closure" -> get_shape(h.func)
    [] h.k = "Recursive" -> get_shape(h.func)

\* mutant: the self handle put in front of the wrapped function's prefix
RECURSIVE unwrap_as_bit_function_SelfFirst(_)
unwrap_as_bit_function_SelfFirst(h) ==
  CASE h.k = "Bit" -> [some |-> TRUE, func |-> h.name, locals |-> << >>]
    [] h.k = "Native" -> [some |-> FALSE, func |-> "", locals |-> << >>]
    [] h.k = "Closure" ->
         LET u == unwrap_as_bit_function_SelfFirst(h.func)
         IN IF u.some THEN [u EXCEPT !.locals = u.locals \o h.closures] ELSE u
    [] h.k = "Recursive" ->
         LET u == unwrap_as_bit_function_SelfFirst(h.func)
         IN IF u.some
            THEN [u EXCEPT !.locals = << Function(RecursiveFunction(h.func)) >> \o u.locals]
            ELSE u

\* unwrap_as_bit_function: None, or the BitFunction with the locals that precede
\* the call's arguments
RECURSIVE unwrap_as_bit_function(_)
unwrap_as_bit_function(h) ==
  CASE h.k = "Bit" -> [some |-> TRUE, func |-> h.name, locals |-> << >>]
    [] h.k = "Native" -> [some |-> FALSE, func |-> "", locals |-> << >>]
    [] h.k = "Closure" ->
         LET u == unwrap_as_bit_function(h.func)
         IN IF u.some THEN [u EXCEPT !.locals = u.locals \o h.closures] ELSE u
    [] h.k = "Recursive" ->
         LET u == unwrap_as_bit_function(h.func)
         IN IF u.some
            THEN [u EXCEPT !.locals = Append(u.locals, Function(RecursiveFunction(h.func)))]
            ELSE u

\* mutant: a closure's captured values put after the arguments
RECURSIVE execute_handle_ArgsFirst(_, _)
execute_handle_ArgsFirst(h, args) ==
  CASE h.k = "Bit" -> [native |-> FALSE, func |-> h.name, args |-> args]
    [] h.k = "Native" -> [native |-> TRUE, func |-> h.name, args |-> args]
    [] h.k = "Closure" -> execute_handle_ArgsFirst(h.func, args \o h.closures)
    [] h.k = "Recursive" ->
         execute_handle_ArgsFirst(h.func, << Function(RecursiveFunction(h.func)) >> \o args)

\* execute of the wrappers, down to the BitFunction or NativeFunction that runs:
\* the function reached and the argument vector it is given
RECURSIVE execute_handle(_, _)
execute_handle(h, args) ==
  CASE h.k = "Bit" -> [native |-> FALSE, func |-> h.name, args |-> args]
    [] h.k = "Native" -> [native |-> TRUE, func |-> h.name, args |-> args]
    [] h.k = "Closure" -> execute_handle(h.func, h.closures \o args)
    [] h.k = "Recursive" ->
         execute_handle(h.func, << Function(RecursiveFunction(h.func)) >> \o args)

\* mutant: the guard dropped, every bytecode callee taken in place
SameFunction_Always(f, g) == TRUE

\* mutant: the name compared with the wrong field
SameFunction_WrongField(f, g) ==
  f.package = g.package /\ f.module = g.module /\ f.name = g.module

\* the comparison that guards the in-place tail call
SameFunction(f, g) ==
  f.package = g.package /\ f.module = g.module /\ f.name = g.name

\* Vec::resize(n, Value::Null)
Resize(s, n) == [i \in 1..n |-> IF i <= Len(s) THEN s[i] ELSE Null]

\* mutant: the offset counted from the Branch or Jump itself
calculate_jump_FromSelf(index, jump) ==
  IF jump >= 0 THEN index + jump - 1 ELSE index - (0 - jump) - 1

\* Machine::calculate_jump: the index before the loop's index += 1
calculate_jump(index, jump) ==
  IF jump >= 0 THEN index + jump ELSE index - (0 - jump)

(***************************************************************************)
(* interpreter.rs: Machine::execute, one action per instruction.           *)
(* A nested call_func.execute(..) of a bytecode function pushes an         *)
(* activation on frames; the in-place tail call replaces the innermost.    *)
(***************************************************************************)
Running == result.t = "Running" /\ frames # << >>
Top == frames[Len(frames)]
Func == functions[Top.func]
InBody == Top.index < Len(Func.body)
Instr == Func.body[Top.index + 1]
At(op) == Running /\ InBody /\ Instr.op = op

\* the start of an activation: index = 0, an empty stack, locals.resize(max_locals)
Activation(name, locals) ==
  [func |-> name, locals |-> Resize(locals, functions[name].max_locals),
   stack |-> << >>, index |-> 0]

\* the instruction is done: index += 1
Continue(stack, locals) ==
  /\ frames' = [frames EXCEPT ![Len(frames)] =
                  [@ EXCEPT !.stack = stack, !.locals = locals, !.index = @ + 1]]
  /\ UNCHANGED <<result, input, notVM>>

\* return Err(..) or ?: the error passes through every enclosing execute
Fail(msg) ==
  /\ frames' = << >>
  /\ result' = [t |-> "Err", msg |-> msg]
  /\ UNCHANGED <<input, notVM>>

\* a panic (index out of bounds, unimplemented!()): the process aborts
Abort(msg) ==
  /\ frames' = << >>
  /\ result' = [t |-> "Panic", msg |-> msg]
  /\ UNCHANGED <<input, notVM>>

Push(v) == Continue(Append(Top.stack, v), Top.locals)
Front(s, n) == SubSeq(s, 1, Len(s) - n)
Back(s, n) == SubSeq(s, Len(s) - n + 1, Len(s))

\* index - rel below zero: a build with overflow checks panics, one without wraps the
\* usize.  After the loop's index += 1 a wrapped -1 is 0; any other wrapped index is
\* 2^64 + target + 1, past the end of every body, where the while loop ends: it is
\* kept as the first index past the end.
Wrapped(target) == IF target + 1 = 0 THEN 0 ELSE Len(Func.body)

Step_NoOp == At("NoOp") /\ Continue(Top.stack, Top.locals)

Step_Debug == At("Debug") /\ Continue(Top.stack, Top.locals)

Step_Duplicate ==
  /\ At("Duplicate")
  /\ IF Top.stack = << >>
     THEN Fail("Attempt to duplicate empty stack")
     ELSE Push(Top.stack[Len(Top.stack)])

Step_Pop ==
  /\ At("Pop")
  /\ IF Top.stack = << >>
     THEN Fail("Attempt to pop empty stack")
     ELSE Continue(Front(Top.stack, 1), Top.locals)

Step_Swap ==
  /\ At("Swap")
  /\ IF Len(Top.stack) < 2
     THEN Fail("Attempt to swap short stack")
     ELSE LET n == Len(Top.stack)
          IN Continue(Front(Top.stack, 2) \o << Top.stack[n], Top.stack[n - 1] >>,
                      Top.locals)

Step_LoadConst ==
  \/ At("LoadConstNull") /\ Push(Null)
  \/ At("LoadConstTrue") /\ Push(True)
  \/ At("LoadConstFalse") /\ Push(False)
  \/ At("LoadConstFloat") /\ Push(Float(Instr.value))
  \/ /\ At("LoadConstString")
     /\ IF Instr.const_id < Len(string_constants)
        THEN Push(Str(string_constants[Instr.const_id + 1]))
        ELSE Fail("Invalid String constant id")

Step_LoadConstFunction ==
  /\ At("LoadConstFunction")
  /\ IF Instr.const_id >= Len(function_ref_names)
     THEN Fail("Invalid Function constant id")
     ELSE LET name == function_ref_names[Instr.const_id + 1]
          IN IF name \in DOMAIN functions
             THEN Push(Function(BitHandle(name)))
             ELSE Fail("Invalid Function constant id")

Step_LoadValue ==
  /\ At("LoadValue")
  /\ IF Instr.local < Len(Top.locals)
     THEN Push(Top.locals[Instr.local + 1])
     ELSE Fail("LoadValue of local that doesn't exist")

Step_StoreValue ==
  /\ At("StoreValue")
  /\ IF Top.stack = << >>
     THEN Fail("Attempt to StoreValue of empty stack")
     ELSE IF Instr.local >= Len(Top.locals)
          THEN Abort("index out of bounds")
          ELSE Continue(Front(Top.stack, 1),
                        [Top.locals EXCEPT ![Instr.local + 1] = Top.stack[Len(Top.stack)]])

\* n values popped one by one, each pushed onto params: the last pushed comes first
PopN(stack, n) == [i \in 1..n |-> stack[Len(stack) - i + 1]]
\* Vec::reverse
Reverse(s) == [i \in 1..Len(s) |-> s[Len(s) - i + 1]]

\* mutant: the popped values left as they were popped
Params_NotReversed(stack, n) == PopN(stack, n)

\* the params of a call or closure: n pops, then params.reverse()
Params(stack, n) == Reverse(PopN(stack, n))

\* core_functions.get(name).or_else(module.functions.get(name))
LookupFunction(name) ==
  IF name \in core_functions THEN [some |-> TRUE, h |-> NativeHandle(name)]
  ELSE IF name \in DOMAIN functions THEN [some |-> TRUE, h |-> BitHandle(name)]
  ELSE [some |-> FALSE, h |-> NativeHandle(name)]

\* the tail of CallStatic and CallDynamic, once params and the callee are popped:
\* the tail-call check, else call_func.execute(params) and stack.push(result)
Invoke(call_func, params, rest) ==
  IF Top.index + 1 >= Len(Func.body)
  THEN Abort("index out of bounds")
  ELSE LET u == unwrap_as_bit_function(call_func)
           e == execute_handle(call_func, params)
       IN IF /\ Func.body[Top.index + 2].op = "Return"
             /\ u.some
             /\ SameFunction(Func, functions[u.func])
          THEN /\ frames' = [frames EXCEPT ![Len(frames)] =
                               Activation(u.func, u.locals \o params)]
               /\ UNCHANGED <<result, input, notVM>>
          ELSE IF e.native
               THEN LET r == NativeApply(e.func, e.args)
                    IN IF r.ok THEN Continue(Append(rest, r.value), Top.locals)
                       ELSE Fail("takes exactly two float arguments")
               ELSE /\ frames' = Append([frames EXCEPT ![Len(frames)].stack = rest],
                                        Activation(e.func, e.args))
                    /\ UNCHANGED <<result, input, notVM>>

\* CallStatic up to the tail-call check: the callee and the popped params, or the
\* error returned before them
StaticCall ==
  IF Instr.func_id >= Len(function_ref_names)
  THEN [err |-> "Invalid function id"]
  ELSE LET found == LookupFunction(function_ref_names[Instr.func_id + 1])
           shape == get_shape(found.h)
       IN IF ~found.some THEN [err |-> "Function with name not found"]
          ELSE IF ~shape.fn THEN [err |-> "CallStatic is not function"]
          ELSE IF Len(Top.stack) < shape.args THEN [err |-> "Not enough args for function"]
          ELSE [err |-> "", call_func |-> found.h, params |-> Params(Top.stack, shape.args),
                rest |-> Front(Top.stack, shape.args)]

\* CallDynamic up to the tail-call check
DynamicCall ==
  LET n == Instr.param_count
  IN IF Len(Top.stack) < n THEN [err |-> "Not enough args for function"]
     ELSE IF Len(Top.stack) = n THEN [err |-> "Invalid built in function id"]
     ELSE LET maybe_func == Top.stack[Len(Top.stack) - n]
          IN IF maybe_func.t # "Function" THEN [err |-> "CallDynamic is not function"]
             ELSE [err |-> "", call_func |-> maybe_func.h, params |-> Params(Top.stack, n),
                   rest |-> Front(Top.stack, n + 1)]

Step_CallStatic ==
  /\ At("CallStatic")
  /\ IF StaticCall.err # "" THEN Fail(StaticCall.err)
     ELSE Invoke(StaticCall.call_func, StaticCall.params, StaticCall.rest)

Step_CallDynamic ==
  /\ At("CallDynamic")
  /\ IF DynamicCall.err # "" THEN Fail(DynamicCall.err)
     ELSE Invoke(DynamicCall.call_func, DynamicCall.params, DynamicCall.rest)

Step_BuildClosure ==
  /\ At("BuildClosure")
  /\ IF Instr.func_id >= Len(function_ref_names)
     THEN Fail("Invalid function id")
     ELSE LET found == LookupFunction(function_ref_names[Instr.func_id + 1])
              n == Instr.param_count
          IN IF ~found.some THEN Fail("Function with name not found")
             ELSE IF Len(Top.stack) < n THEN Fail("Not enough args for closure")
             ELSE Continue(Append(Front(Top.stack, n),
                                  Function(ClosureFunction(found.h, Params(Top.stack, n)))),
                           Top.locals)

Step_BuildRecursiveFunction ==
  /\ At("BuildRecursiveFunction")
  /\ IF Top.stack = << >>
     THEN Fail("Attempt to BuildRecursiveFunction of empty stack")
     ELSE LET maybe_func == Top.stack[Len(Top.stack)]
          IN IF maybe_func.t # "Function"
             THEN Fail("BuildRecursiveFunction is not function")
             ELSE Continue(Append(Front(Top.stack, 1),
                                  Function(RecursiveFunction(maybe_func.h))),
                           Top.locals)

\* Return: the value goes to the caller, which pushes it and moves on
Step_Return ==
  /\ At("Return")
  /\ IF Top.stack = << >>
     THEN Fail("Attempt to return empty stack")
     ELSE LET v == Top.stack[Len(Top.stack)]
              d == Len(frames)
          IN IF d = 1
             THEN /\ frames' = << >>
                  /\ result' = [t |-> "Ok", value |-> v]
                  /\ UNCHANGED <<input, notVM>>
             ELSE /\ frames' = [Front(frames, 1) EXCEPT ![d - 1] =
                                  [@ EXCEPT !.stack = Append(@, v), !.index = @ + 1]]
                  /\ UNCHANGED <<result, input, notVM>>

Step_Branch ==
  /\ At("Branch")
  /\ IF Top.stack = << >>
     THEN Fail("Attempt to Branch empty stack")
     ELSE LET first == Top.stack[Len(Top.stack)]
              target == calculate_jump(Top.index, Instr.jump)
          IN IF first.t = "True" THEN Continue(Front(Top.stack, 1), Top.locals)
             ELSE IF first.t # "False" THEN Fail("Attempt to Branch on non boolean")
             ELSE IF target < 0
             THEN \/ Abort("attempt to subtract with overflow")
                  \/ /\ frames' = [frames EXCEPT ![Len(frames)] =
                                     [@ EXCEPT !.stack = Front(Top.stack, 1),
                                               !.index = Wrapped(target)]]
                     /\ UNCHANGED <<result, input, notVM>>
             ELSE /\ frames' = [frames EXCEPT ![Len(frames)] =
                                  [@ EXCEPT !.stack = Front(Top.stack, 1),
                                            !.index = target + 1]]
                  /\ UNCHANGED <<result, input, notVM>>

Step_Jump ==
  /\ At("Jump")
  /\ LET target == calculate_jump(Top.index, Instr.jump)
     IN IF target < 0
        THEN \/ Abort("attempt to subtract with overflow")
             \/ /\ frames' = [frames EXCEPT ![Len(frames)].index = Wrapped(target)]
                /\ UNCHANGED <<result, input, notVM>>
        ELSE /\ frames' = [frames EXCEPT ![Len(frames)].index = target + 1]
             /\ UNCHANGED <<result, input, notVM>>

\* _ => unimplemented!()
Step_Unimplemented == At("Error") /\ Abort("not yet implemented")

\* the while loop ends: Err("Overflowed function body")
Step_Overflow == Running /\ ~InBody /\ Fail("Overflowed function body")

InitVM ==
  /\ input \in [entry : Entries, n : 0..MaxN]
  /\ frames = << Activation(input.entry, << Float(input.n) >>) >>
  /\ result = [t |-> "Running"]
  /\ stage = "idle"
  /\ source = << >>
  /\ checked = << >>
  /\ lowered = << >>
  /\ optimized = << >>
  /\ CompilerIdle
  /\ ListIdle
  /\ ScopeIdle
  /\ FillIdle

NextVM ==
  \/ Step_NoOp
  \/ Step_Debug
  \/ Step_Duplicate
  \/ Step_Pop
  \/ Step_Swap
  \/ Step_LoadConst
  \/ Step_LoadConstFunction
  \/ Step_LoadValue
  \/ Step_StoreValue
  \/ Step_CallStatic
  \/ Step_CallDynamic
  \/ Step_BuildClosure
  \/ Step_BuildRecursiveFunction
  \/ Step_Return
  \/ Step_Branch
  \/ Step_Jump
  \/ Step_Unimplemented
  \/ Step_Overflow

SpecVM == InitVM /\ [][NextVM]_vars

\* Machine::execute is a sequential loop: it keeps taking steps until it returns
SpecVMFair == SpecVM /\ WF_vars(NextVM)

(***************************************************************************)
(* Tail calls (C1, C2)                                                     *)
(***************************************************************************)
\* a call instruction is about to run and gets as far as the tail-call check
PendingCall ==
  IF At("CallStatic") THEN StaticCall
  ELSE IF At("CallDynamic") THEN DynamicCall
  ELSE [err |-> "no call"]

\* the instruction after the current one is Return
FollowedByReturn ==
  /\ Top.index + 1 < Len(Func.body)
  /\ Func.body[Top.index + 2].op = "Return"

\* a call followed by Return whose callee is a bytecode function
TailCallOfBitFunction ==
  /\ PendingCall.err = ""
  /\ FollowedByReturn
  /\ unwrap_as_bit_function(PendingCall.call_func).some

Callee == unwrap_as_bit_function(PendingCall.call_func)

\* the step replaced the innermost activation by the callee's, with no new one
ReplacedInPlace ==
  /\ Len(frames') = Len(frames)
  /\ frames'[Len(frames)] = Activation(Callee.func, Callee.locals \o PendingCall.params)
  /\ \A i \in 1..(Len(frames) - 1) : frames'[i] = frames[i]

\* the step made a nested call of execute
NestedCall ==
  /\ Len(frames') = Len(frames) + 1
  /\ frames'[Len(frames')].func = Callee.func
  /\ frames'[Len(frames')].index = 0

\* the callee is the function whose activation is running
CalleeIsRunningFunction ==
  /\ functions[Callee.func].package = Func.package
  /\ functions[Callee.func].module = Func.module
  /\ functions[Callee.func].name = Func.name

SelfTailEntries ==
  {"main_loop", "main_plain", "main_closure", "main_rec", "main_recclosure"}

BaseValue(entry) ==
  IF entry \in {"main_closure", "main_recclosure"} THEN Float(7) ELSE Float(0)

\* C2: a function that calls itself in tail position runs all its iterations in one
\* activation: whatever n, there are never more than two activations of execute
\* (the entry function's and the loop's), and the run returns the base-case value.
C2_SelfLoopOneActivation ==
  /\ [](input.entry \in SelfTailEntries => Len(frames) <= 2)
  /\ <>(input.entry \in SelfTailEntries =>
          result = [t |-> "Ok", value |-> BaseValue(input.entry)])

\* the last of MaxN iterations of a recursive closure's loop, in the second activation
C2_Witness ==
  /\ input.entry = "main_recclosure" /\ input.n = MaxN
  /\ Len(frames) = 2
  /\ Top.func = "cloop"
  /\ Top.locals[3] = Float(0)

(***************************************************************************)
(* shapes.rs: Shape                                                        *)
(***************************************************************************)
BaseShape(kind) == [s |-> "Base", kind |-> kind]
NamedShape(name) == [s |-> "Named", name |-> name]
UnknownShape == [s |-> "Unknown"]
SimpleFunctionShape(args, res) == [s |-> "Fn", args |-> args, result |-> res]
GenericShape(base, args) == [s |-> "Generic", base |-> base, args |-> args]
GenericShapeConstructor(base, args) == [s |-> "Constructor", base |-> base, args |-> args]
shape_float == BaseShape("Float")
shape_string == BaseShape("String")
shape_boolean == BaseShape("Boolean")
shape_unit == BaseShape("Unit")
shape_unknown == UnknownShape
shape_list(arg) == GenericShape(BaseShape("List"), << arg >>)

(***************************************************************************)
(* ast.rs: Expression, Parameter, FunctionContext                          *)
(***************************************************************************)
\* where in the source file an expression was read
Location(src, x, y) == [src |-> src, x |-> x, y |-> y]
\* an expression read at loc; one built without a place stands at the file's start
Located(ex, loc) == [f \in DOMAIN ex \cup {"loc"} |-> IF f = "loc" THEN loc ELSE ex[f]]
LocOf(ex) == IF "loc" \in DOMAIN ex THEN ex.loc ELSE Location("Basic.let", 0, 0)
Parameter(id, shape) == [id |-> id, shape |-> shape]
FunctionContext(is_local, is_lambda) ==
  [is_lambda |-> is_lambda, is_local |-> is_local, is_recursive |-> FALSE,
   closures |-> << >>]
NoOpEx == [e |-> "NoOp"]
FunctionDeclarationEx(id, args, res, body, context) ==
  [e |-> "Fun", id |-> id, args |-> args, result |-> res, body |-> body,
   context |-> context]
AssignmentEx(id, shape, body) == [e |-> "Assign", id |-> id, shape |-> shape, body |-> body]
VariableEx(id, shape) == [e |-> "Var", id |-> id, shape |-> shape]
BinaryOpEx(op, left, right, shape) ==
  [e |-> "BinOp", op |-> op, left |-> left, right |-> right, shape |-> shape]
CallEx(func, args, shape) == [e |-> "Call", func |-> func, args |-> args, shape |-> shape]
IfEx(condition, then_block, else_block, shape) ==
  [e |-> "If", condition |-> condition, then_block |-> then_block,
   else_block |-> else_block, shape |-> shape]
BlockEx(body, shape) == [e |-> "Block", body |-> body, shape |-> shape]
StringLiteralEx(value) == [e |-> "Str", value |-> value, shape |-> shape_string]
NumberLiteralEx(value) == [e |-> "Num", value |-> value, shape |-> shape_float]
BooleanLiteral(value) == [e |-> "Bool", value |-> value]

\* FunctionDeclarationEx::shape
FunShape(f) == SimpleFunctionShape([i \in 1..Len(f.args) |-> f.args[i].shape], f.result)

\* Expression::shape
ShapeOf(ex) ==
  CASE ex.e = "NoOp" -> shape_unit
    [] ex.e = "Fun" -> FunShape(ex)
    [] ex.e = "Bool" -> shape_boolean
    [] OTHER -> ex.shape

(***************************************************************************)
(* typechecker.rs: fill_shape, verify, verify_function_declaration         *)
(***************************************************************************)
\* the index of the first failed element of a sequence of results, or 0
FirstBad(rs) ==
  IF \E i \in 1..Len(rs) : ~rs[i].ok
  THEN CHOOSE i \in 1..Len(rs) : ~rs[i].ok /\ \A j \in 1..(i - 1) : rs[j].ok
  ELSE 0

\* mutant: a shape is handed back as it came
fill_shape_AsIs(shape) == [ok |-> TRUE, shape |-> shape]

RECURSIVE fill_shape(_)
fill_shape(shape) ==
  CASE shape.s = "Constructor" ->
         LET b == fill_shape(shape.base)
         IN IF ~b.ok THEN b
            ELSE [ok |-> TRUE, shape |-> GenericShapeConstructor(b.shape, shape.args)]
    [] shape.s = "Generic" ->
         LET as == [i \in 1..Len(shape.args) |-> fill_shape(shape.args[i])]
             b == fill_shape(shape.base)
         IN IF FirstBad(as) # 0 THEN as[FirstBad(as)]
            ELSE IF ~b.ok THEN b
            ELSE [ok |-> TRUE,
                  shape |-> GenericShape(b.shape, [i \in 1..Len(as) |-> as[i].shape])]
    [] shape.s = "Fn" ->
         LET as == [i \in 1..Len(shape.args) |-> fill_shape(shape.args[i])]
             r == fill_shape(shape.result)
         IN IF FirstBad(as) # 0 THEN as[FirstBad(as)]
            ELSE IF ~r.ok THEN r
            ELSE [ok |-> TRUE,
                  shape |-> SimpleFunctionShape([i \in 1..Len(as) |-> as[i].shape], r.shape)]
    [] shape.s = "Named" ->
         CASE shape.name = "String" -> [ok |-> TRUE, shape |-> shape_string]
           [] shape.name = "Float" -> [ok |-> TRUE, shape |-> shape_float]
           [] shape.name = "Unit" -> [ok |-> TRUE, shape |-> shape_unit]
           [] OTHER -> [ok |-> FALSE, msg |-> "Could not find type"]
    [] shape.s = "Base" -> [ok |-> TRUE, shape |-> shape]
    [] shape.s = "Unknown" -> [ok |-> TRUE, shape |-> shape_unknown]

verify(defined, found) ==
  IF defined.s = "Unknown"
  THEN IF found.s = "Unknown" THEN [ok |-> FALSE, msg |-> "Unknown shape"]
       ELSE fill_shape(found)
  ELSE IF found.s = "Unknown" THEN fill_shape(defined)
  ELSE LET filled_defined == fill_shape(defined)
           filled_found == fill_shape(found)
       IN IF ~filled_defined.ok THEN filled_defined
          ELSE IF ~filled_found.ok THEN filled_found
          ELSE IF filled_defined.shape = filled_found.shape THEN filled_found
          ELSE [ok |-> FALSE, msg |-> "Incompatible types"]

Min(a, b) == IF a <= b THEN a ELSE b

\* the declared parameters verified against the expected argument shapes (zip)
verify_function_declaration(parameters, expected) ==
  LET expected_args ==
        IF expected.s = "Fn" THEN expected.args
        ELSE [i \in 1..Len(parameters) |-> shape_unknown]
      n == Min(Len(parameters), Len(expected_args))
      vs == [i \in 1..n |-> verify(expected_args[i], parameters[i].shape)]
  IN IF FirstBad(vs) # 0 THEN vs[FirstBad(vs)]
     ELSE [ok |-> TRUE, args |-> [i \in 1..n |-> Parameter(parameters[i].id, vs[i].shape)]]

(***************************************************************************)
(* typechecker.rs: Scope                                                   *)
(***************************************************************************)
EmptyMap == << >>
MapPut(map, key, value) ==
  [x \in (DOMAIN map) \cup {key} |-> IF x = key THEN value ELSE map[x]]
Last(seq) == seq[Len(seq)]

ScopeNew == [static_scope |-> EmptyMap, block_stack |-> << >>, closures |-> << >>]

pre_fill_module_function(scope, id, shape) ==
  LET filled == fill_shape(shape)
  IN IF ~filled.ok THEN filled
     ELSE [ok |-> TRUE,
           scope |-> [scope EXCEPT !.static_scope = MapPut(@, id, filled.shape)]]

\* mutant: the binding is overwritten
set_scope_Overwrite(scope, id, shape, loc) ==
  [ok |-> TRUE,
   scope |-> [scope EXCEPT !.block_stack[Len(scope.block_stack)]
                              [Len(scope.block_stack[Len(scope.block_stack)])] =
                             MapPut(@, id, shape)]]

\* the error names the identifier and the place (loc.pretty())
set_scope(scope, id, shape, loc) ==
  LET fi == Len(scope.block_stack)
      bi == Len(scope.block_stack[fi])
  IN IF id \in DOMAIN scope.block_stack[fi][bi]
     THEN [ok |-> FALSE, msg |-> "Redeclaration of variable", id |-> id, loc |-> loc]
     ELSE [ok |-> TRUE,
           scope |-> [scope EXCEPT !.block_stack[fi][bi] = MapPut(@, id, shape)]]

\* function scopes innermost first, the blocks of one function in stack order
check_scope(scope, id) ==
  LET n == Len(scope.block_stack)
      Holds(fi) == \E bi \in 1..Len(scope.block_stack[fi]) :
                      id \in DOMAIN scope.block_stack[fi][bi]
  IN IF \E fi \in 1..n : Holds(fi)
     THEN LET fi == CHOOSE f \in 1..n : Holds(f) /\ \A g \in (f + 1)..n : ~Holds(g)
              bi == CHOOSE b \in 1..Len(scope.block_stack[fi]) :
                      /\ id \in DOMAIN scope.block_stack[fi][b]
                      /\ \A c \in 1..(b - 1) : id \notin DOMAIN scope.block_stack[fi][c]
              shape == scope.block_stack[fi][bi][id]
              first == (fi = n)
          IN [ok |-> TRUE, shape |-> shape,
              scope |-> IF ~first
                        THEN [scope EXCEPT !.closures[Len(scope.closures)] =
                                             Append(@, Parameter(id, shape))]
                        ELSE scope]
     ELSE IF id \in DOMAIN scope.static_scope
     THEN [ok |-> TRUE, shape |-> scope.static_scope[id], scope |-> scope]
     ELSE [ok |-> FALSE, msg |-> "Undeclared variable"]

create_block_scope(scope) ==
  [scope EXCEPT !.block_stack[Len(scope.block_stack)] = Append(@, EmptyMap)]
destroy_block_scope(scope) ==
  [scope EXCEPT !.block_stack[Len(scope.block_stack)] = SubSeq(@, 1, Len(@) - 1)]
create_function_scope(scope) ==
  [scope EXCEPT !.block_stack = Append(@, << EmptyMap >>),
                !.closures = Append(@, << >>)]
destroy_function_scope(scope) ==
  [closures |-> Last(scope.closures),
   scope |-> [scope EXCEPT !.block_stack = SubSeq(@, 1, Len(@) - 1),
                           !.closures = SubSeq(@, 1, Len(@) - 1)]]

(***************************************************************************)
(* typechecker.rs: Typed::check for every expression                       *)
(***************************************************************************)
TypedOk(ex, scope) == [ok |-> TRUE, ex |-> ex, scope |-> scope]
TypedErr(msg) == [ok |-> FALSE, msg |-> msg]

\* let x = v; F(x): v is evaluated once, as a let binding of the source is
Bind(v, F(_)) == CHOOSE r \in {F(x) : x \in {v}} : TRUE

RECURSIVE set_scope_all(_, _, _, _)
set_scope_all(scope, params, i, loc) ==
  IF i > Len(params) THEN [ok |-> TRUE, scope |-> scope]
  ELSE Bind(set_scope(scope, params[i].id, params[i].shape, loc), LAMBDA r :
         IF ~r.ok THEN r ELSE set_scope_all(r.scope, params, i + 1, loc))

NotMe_KeepAll(param, id) == TRUE
\* the filter that takes the function's own id out of its captures
NotMe(param, id) == param.id # id

FLOAT_OPS == {"+", "-", "*", "/"}
COMPARE_OPS == {"==", "!=", "<", ">", "<=", ">="}

RECURSIVE check(_, _, _)
RECURSIVE FunctionDeclarationEx_check(_, _, _)
RECURSIVE BlockEx_check(_, _, _)
RECURSIVE BlockEx_check_body(_, _, _, _, _)
RECURSIVE AssignmentEx_check(_, _, _)
RECURSIVE BinaryOpEx_check(_, _, _)
RECURSIVE CallEx_check(_, _, _)
RECURSIVE CallEx_check_args(_, _, _, _, _)
RECURSIVE IfEx_check(_, _, _)

\* set_scope of the declared name in the enclosing block, unless a lambda
DeclareOwn(scope, self) ==
  IF self.context.is_lambda THEN [ok |-> TRUE, scope |-> scope]
  ELSE Bind(fill_shape(FunShape(self)), LAMBDA filled :
         IF ~filled.ok THEN filled ELSE set_scope(scope, self.id, filled.shape, LocOf(self)))

\* the captures without the function's own id; recursive if that took any out
CloseContext(self, closures) ==
  Bind(SelectSeq(closures, LAMBDA param : NotMe(param, self.id)), LAMBDA maybe_me :
    IF Len(closures) # Len(maybe_me)
    THEN [self.context EXCEPT !.is_recursive = TRUE, !.closures = maybe_me]
    ELSE [self.context EXCEPT !.closures = maybe_me])

FunctionDeclarationEx_check(scope, self, expected) ==
  Bind(verify_function_declaration(self.args, expected), LAMBDA args :
    IF ~args.ok THEN TypedErr(args.msg) ELSE
  Bind(DeclareOwn(scope, self), LAMBDA own :
    IF ~own.ok THEN own ELSE
  Bind(set_scope_all(create_function_scope(own.scope), args.args, 1, LocOf(self)),
       LAMBDA params :
    IF ~params.ok THEN params ELSE
  Bind(check(params.scope, self.body, self.result), LAMBDA body :
    IF ~body.ok THEN body ELSE
  Bind(verify(self.result, ShapeOf(body.ex)), LAMBDA res :
    IF ~res.ok THEN TypedErr(res.msg) ELSE
  Bind(destroy_function_scope(body.scope), LAMBDA destroyed :
    TypedOk(FunctionDeclarationEx(self.id, args.args, res.shape, body.ex,
                                  CloseContext(self, destroyed.closures)),
            destroyed.scope)))))))

BlockEx_check_body(scope, raw_body, index, expected, body) ==
  IF index > Len(raw_body) THEN [ok |-> TRUE, body |-> body, scope |-> scope]
  ELSE Bind(check(scope, raw_body[index],
                  IF Len(raw_body) = index THEN expected ELSE shape_unknown),
            LAMBDA next :
         IF ~next.ok THEN next
         ELSE BlockEx_check_body(next.scope, raw_body, index + 1, expected,
                                 Append(body, next.ex)))

BlockEx_check(scope, self, expected) ==
  IF Len(self.body) = 0 THEN TypedOk(BlockEx(<< >>, shape_unit), scope)
  ELSE Bind(BlockEx_check_body(create_block_scope(scope), self.body, 1, expected, << >>),
            LAMBDA r :
         IF ~r.ok THEN r
         ELSE TypedOk(BlockEx(r.body, ShapeOf(Last(r.body))), destroy_block_scope(r.scope)))

AssignmentEx_check(scope, self, expected) ==
  Bind(check(scope, self.body, self.shape), LAMBDA body :
    IF ~body.ok THEN body ELSE
  Bind(verify(self.shape, ShapeOf(body.ex)), LAMBDA shape :
    IF ~shape.ok THEN TypedErr(shape.msg) ELSE
  Bind(set_scope(body.scope, self.id, shape.shape, LocOf(self)), LAMBDA set :
    IF ~set.ok THEN set
    ELSE TypedOk([self EXCEPT !.shape = shape.shape, !.body = body.ex], set.scope))))

BinaryOpEx_check(scope, self, expected) ==
  Bind(check(scope, self.left, shape_float), LAMBDA left :
    IF ~left.ok THEN left ELSE
  Bind(check(left.scope, self.right, shape_float), LAMBDA right :
    IF ~right.ok THEN right
    ELSE IF ShapeOf(left.ex) = ShapeOf(right.ex)
    THEN TypedOk(BinaryOpEx(self.op, left.ex, right.ex,
                            IF self.op \in FLOAT_OPS THEN shape_float ELSE shape_boolean),
                 right.scope)
    ELSE TypedErr("Incompatible types! Cannot perform operation")))

CallEx_check_args(scope, expected_args, raw_args, i, args) ==
  IF i > Len(raw_args) THEN [ok |-> TRUE, args |-> args, scope |-> scope]
  ELSE Bind(check(scope, raw_args[i], expected_args[i]), LAMBDA arg :
         IF ~arg.ok THEN arg
         ELSE IF ShapeOf(arg.ex) # expected_args[i]
         THEN TypedErr("Invalid argument types for call")
         ELSE CallEx_check_args(arg.scope, expected_args, raw_args, i + 1,
                                Append(args, arg.ex)))

CallEx_check(scope, self, expected) ==
  Bind(check(scope, self.func, shape_unknown), LAMBDA func :
    IF ~func.ok THEN func ELSE
  Bind(ShapeOf(func.ex), LAMBDA fshape :
    IF fshape.s # "Fn" THEN TypedErr("Attempt to call non-function")
    ELSE IF Len(self.args) # Len(fshape.args) THEN TypedErr("Incorrect number of arguments")
    ELSE
  Bind(CallEx_check_args(func.scope, fshape.args, self.args, 1, << >>), LAMBDA args :
    IF ~args.ok THEN args
    ELSE TypedOk(CallEx(func.ex, args.args, fshape.result), args.scope))))

IfEx_check(scope, self, expected) ==
  Bind(check(scope, self.condition, shape_boolean), LAMBDA condition :
    IF ~condition.ok THEN condition ELSE
  Bind(verify(shape_boolean, ShapeOf(condition.ex)), LAMBDA cond_ok :
    IF ~cond_ok.ok THEN TypedErr(cond_ok.msg) ELSE
  Bind(check(condition.scope, self.then_block, shape_unknown), LAMBDA then_block :
    IF ~then_block.ok THEN then_block ELSE
  Bind(check(then_block.scope, self.else_block, shape_unknown), LAMBDA else_block :
    IF ~else_block.ok THEN else_block ELSE
  Bind(verify(ShapeOf(then_block.ex), ShapeOf(else_block.ex)), LAMBDA same :
    IF ~same.ok THEN TypedErr(same.msg)
    ELSE TypedOk(IfEx(condition.ex, then_block.ex, else_block.ex, ShapeOf(then_block.ex)),
                 else_block.scope))))))

VariableEx_check(scope, self, expected) ==
  Bind(check_scope(scope, self.id), LAMBDA found :
    IF ~found.ok THEN TypedErr(found.msg)
    ELSE TypedOk(VariableEx(self.id, found.shape), found.scope))

check(scope, ex, expected) ==
  CASE ex.e = "Fun" -> FunctionDeclarationEx_check(scope, ex, expected)
    [] ex.e = "Block" -> BlockEx_check(scope, ex, expected)
    [] ex.e = "Assign" -> AssignmentEx_check(scope, ex, expected)
    [] ex.e = "BinOp" -> BinaryOpEx_check(scope, ex, expected)
    [] ex.e = "Call" -> CallEx_check(scope, ex, expected)
    [] ex.e = "If" -> IfEx_check(scope, ex, expected)
    [] ex.e = "Var" -> VariableEx_check(scope, ex, expected)
    [] OTHER -> TypedOk(ex, scope)

RECURSIVE pre_fill_all(_, _, _)
pre_fill_all(scope, decs, i) ==
  IF i > Len(decs) THEN [ok |-> TRUE, scope |-> scope]
  ELSE Bind(pre_fill_module_function(scope, decs[i].id, FunShape(decs[i])), LAMBDA r :
         IF ~r.ok THEN r ELSE pre_fill_all(r.scope, decs, i + 1))

RECURSIVE check_all(_, _, _, _)
check_all(scope, decs, i, done) ==
  IF i > Len(decs) THEN [ok |-> TRUE, functions |-> done]
  ELSE Bind(check(scope, decs[i], shape_unknown), LAMBDA r :
         IF ~r.ok THEN r
         ELSE check_all(r.scope, decs, i + 1, Append(done, r.ex)))

\* a module is the sequence of its function declarations
check_module(module) ==
  Bind(pre_fill_all(create_function_scope(ScopeNew), module, 1), LAMBDA pre :
    IF ~pre.ok THEN pre
    ELSE check_all(pre.scope, module, 1, << >>))

(***************************************************************************)
(* ir.rs: Ir, IrFunction and the lowering of a checked module              *)
(***************************************************************************)
FunctionRef(package, module, name) ==
  [package |-> package, module |-> module, name |-> name]
IrLoadConstTrue == [op |-> "LoadConstTrue"]
IrLoadConstFalse == [op |-> "LoadConstFalse"]
IrLoadConstString(value) == [op |-> "LoadConstString", value |-> value]
IrLoadConstFunction(value) == [op |-> "LoadConstFunction", value |-> value]
IrLoadConstFloat(value) == [op |-> "LoadConstFloat", value |-> value]
IrLoadValue(local) == [op |-> "LoadValue", local |-> local]
IrStoreValue(local) == [op |-> "StoreValue", local |-> local]
IrCallStatic(func) == [op |-> "CallStatic", func |-> func]
IrCallDynamic(param_count) == [op |-> "CallDynamic", param_count |-> param_count]
IrBuildClosure(param_count, func) ==
  [op |-> "BuildClosure", param_count |-> param_count, func |-> func]
IrBuildRecursiveFunction == [op |-> "BuildRecursiveFunction"]
IrReturn == [op |-> "Return"]
IrDuplicate == [op |-> "Duplicate"]
IrFreeLocal(local) == [op |-> "FreeLocal", local |-> local]
IrFunction(func_ref, args, body, shape) ==
  [func_ref |-> func_ref, args |-> args, body |-> body, shape |-> shape]

IrCoreScope == FLOAT_OPS \cup COMPARE_OPS
IrFuncContextNew == [body |-> << << >> >>, scope |-> {}]
IrModuleContextNew ==
  [declared_functions |-> {}, functions |-> EmptyMap, function_context |-> << >>]

ctx_append(context, ir) ==
  LET fi == Len(context.function_context)
      bi == Len(context.function_context[fi].body)
  IN [context EXCEPT !.function_context[fi].body[bi] = Append(@, ir)]
ctx_store(context, name) ==
  [context EXCEPT !.function_context[Len(context.function_context)].scope = @ \cup {name}]
ctx_push_block(context) ==
  [context EXCEPT !.function_context[Len(context.function_context)].body = Append(@, << >>)]
ctx_pop_block(context) ==
  LET fi == Len(context.function_context)
  IN [block |-> Last(context.function_context[fi].body),
      context |-> [context EXCEPT !.function_context[fi].body = SubSeq(@, 1, Len(@) - 1)]]
ctx_push_function(context) ==
  [context EXCEPT !.function_context = Append(@, IrFuncContextNew)]

\* enclosing functions' names innermost first, then the module, then Core
ctx_lookup(context, name) ==
  IF \E fi \in 1..Len(context.function_context) : name \in context.function_context[fi].scope
  THEN [ok |-> TRUE, kind |-> "Local"]
  ELSE IF name \in context.declared_functions
  THEN [ok |-> TRUE, kind |-> "Static", func |-> FunctionRef(Package, Module, name)]
  ELSE IF name \in IrCoreScope
  THEN [ok |-> TRUE, kind |-> "Static", func |-> FunctionRef("Core", "Core", name)]
  ELSE [ok |-> FALSE, msg |-> "Variable not found in IrCompiler scope"]

ctx_pop_function(context, ex) ==
  LET fi == Len(context.function_context)
      func_ref == FunctionRef(Package, Module, ex.id)
      args == ex.context.closures
                \o (IF ex.context.is_recursive THEN << Parameter(ex.id, FunShape(ex)) >> ELSE << >>)
                \o ex.args
      func == IrFunction(func_ref, args, Last(context.function_context[fi].body), FunShape(ex))
  IN [func_ref |-> func_ref,
      context |-> [context EXCEPT !.function_context = SubSeq(@, 1, fi - 1),
                                  !.functions = MapPut(@, ex.id, func)]]

RECURSIVE ctx_store_all(_, _, _)
ctx_store_all(context, params, i) ==
  IF i > Len(params) THEN context
  ELSE Bind(ctx_store(context, params[i].id), LAMBDA next :
         ctx_store_all(next, params, i + 1))

RECURSIVE compile_ir_expression(_, _)
RECURSIVE compile_ir_all(_, _, _)
RECURSIVE compile_ir_function(_, _)
RECURSIVE CallEx_compile_ir(_, _)
RECURSIVE IfEx_compile_ir(_, _)
RECURSIVE BinaryOpEx_compile_ir(_, _)
RECURSIVE AssignmentEx_compile_ir(_, _)
RECURSIVE FunctionDeclarationEx_compile_ir(_, _)
RECURSIVE load_closures(_, _, _)

IrOk(context) == [ok |-> TRUE, context |-> context]

compile_ir_all(exs, i, context) ==
  IF i > Len(exs) THEN IrOk(context)
  ELSE Bind(compile_ir_expression(exs[i], context), LAMBDA r :
         IF ~r.ok THEN r ELSE compile_ir_all(exs, i + 1, r.context))

\* the names a function's body starts with: captures, itself if recursive, arguments
ctx_enter(context, ex) ==
  Bind(ctx_store_all(ctx_push_function(context), ex.context.closures, 1), LAMBDA c1 :
    ctx_store_all(IF ex.context.is_recursive THEN ctx_store(c1, ex.id) ELSE c1, ex.args, 1))

compile_ir_function(ex, context) ==
  Bind(ctx_enter(context, ex), LAMBDA entered :
  Bind(compile_ir_expression(ex.body, entered), LAMBDA body :
    IF ~body.ok THEN body ELSE
  Bind(ctx_pop_function(ctx_append(body.context, IrReturn), ex), LAMBDA popped :
    [ok |-> TRUE, context |-> popped.context, func_ref |-> popped.func_ref])))

CallStatic_compile_ir(self, context, func_ref) ==
  Bind(compile_ir_all(self.args, 1, context), LAMBDA args :
    IF ~args.ok THEN args ELSE IrOk(ctx_append(args.context, IrCallStatic(func_ref))))

CallDynamic_compile_ir(self, context) ==
  Bind(compile_ir_expression(self.func, context), LAMBDA func :
    IF ~func.ok THEN func ELSE
  Bind(compile_ir_all(self.args, 1, func.context), LAMBDA args :
    IF ~args.ok THEN args
    ELSE IF ShapeOf(self.func).s = "Fn"
    THEN IrOk(ctx_append(args.context, IrCallDynamic(Len(ShapeOf(self.func).args))))
    ELSE [ok |-> FALSE, msg |-> "Function does not have function shape"]))

CallEx_compile_ir(self, context) ==
  IF self.func.e = "Var"
  THEN Bind(ctx_lookup(context, self.func.id), LAMBDA lookup :
         IF ~lookup.ok THEN lookup
         ELSE IF lookup.kind = "Static" THEN CallStatic_compile_ir(self, context, lookup.func)
         ELSE CallDynamic_compile_ir(self, context))
  ELSE CallDynamic_compile_ir(self, context)

IfEx_compile_ir(self, context) ==
  Bind(compile_ir_expression(self.condition, context), LAMBDA condition :
    IF ~condition.ok THEN condition ELSE
  Bind(compile_ir_expression(self.then_block, ctx_push_block(condition.context)),
       LAMBDA then_done :
    IF ~then_done.ok THEN then_done ELSE
  Bind(ctx_pop_block(then_done.context), LAMBDA then_block :
  Bind(compile_ir_expression(self.else_block, ctx_push_block(then_block.context)),
       LAMBDA else_done :
    IF ~else_done.ok THEN else_done ELSE
  Bind(ctx_pop_block(else_done.context), LAMBDA else_block :
    IrOk(ctx_append(else_block.context, IrBranch(then_block.block, else_block.block))))))))

BinaryOpEx_compile_ir(self, context) ==
  Bind(compile_ir_expression(self.left, context), LAMBDA left :
    IF ~left.ok THEN left ELSE
  Bind(compile_ir_expression(self.right, left.context), LAMBDA right :
    IF ~right.ok THEN right ELSE
  Bind(ctx_lookup(right.context, self.op), LAMBDA lookup :
    IF ~lookup.ok THEN lookup
    ELSE IF lookup.kind = "Static"
    THEN IrOk(ctx_append(right.context, IrCallStatic(lookup.func)))
    ELSE [ok |-> FALSE, msg |-> "Could not look up Core operator function"])))

AssignmentEx_compile_ir(self, context) ==
  Bind(compile_ir_expression(self.body, context), LAMBDA body :
    IF ~body.ok THEN body
    ELSE IrOk(ctx_append(ctx_store(body.context, self.id), IrStoreValue(self.id))))

load_closures(closures, i, context) ==
  IF i > Len(closures) THEN IrOk(context)
  ELSE Bind(ctx_lookup(context, closures[i].id), LAMBDA lookup :
         IF ~lookup.ok THEN lookup
         ELSE Bind(ctx_append(context, IF lookup.kind = "Local"
                                       THEN IrLoadValue(closures[i].id)
                                       ELSE IrLoadConstFunction(lookup.func)),
                   LAMBDA next : load_closures(closures, i + 1, next)))

\* what follows the nested function's own compilation: build the value, bind the name
build_function_value(self, context, func_ref) ==
  Bind(ctx_append(context,
                  IF Len(self.context.closures) = 0 THEN IrLoadConstFunction(func_ref)
                  ELSE IrBuildClosure(Len(self.context.closures), func_ref)),
       LAMBDA c1 :
  Bind(IF self.context.is_recursive THEN ctx_append(c1, IrBuildRecursiveFunction) ELSE c1,
       LAMBDA c2 :
    IF ~self.context.is_lambda
    THEN ctx_append(ctx_store(c2, self.id), IrStoreValue(self.id))
    ELSE c2))

FunctionDeclarationEx_compile_ir(self, context) ==
  Bind(load_closures(self.context.closures, 1, context), LAMBDA loaded :
    IF ~loaded.ok THEN loaded ELSE
  Bind(compile_ir_function(self, loaded.context), LAMBDA func :
    IF ~func.ok THEN func
    ELSE IrOk(build_function_value(self, func.context, func.func_ref))))

compile_ir_expression(ex, context) ==
  CASE ex.e = "NoOp" -> IrOk(context)
    [] ex.e = "Fun" -> FunctionDeclarationEx_compile_ir(ex, context)
    [] ex.e = "Assign" -> AssignmentEx_compile_ir(ex, context)
    [] ex.e = "Var" -> IrOk(ctx_append(context, IrLoadValue(ex.id)))
    [] ex.e = "BinOp" -> BinaryOpEx_compile_ir(ex, context)
    [] ex.e = "Call" -> CallEx_compile_ir(ex, context)
    [] ex.e = "If" -> IfEx_compile_ir(ex, context)
    [] ex.e = "Block" -> compile_ir_all(ex.body, 1, context)
    [] ex.e = "Str" -> IrOk(ctx_append(context, IrLoadConstString(ex.value)))
    [] ex.e = "Num" -> IrOk(ctx_append(context, IrLoadConstFloat(ex.value)))
    [] ex.e = "Bool" -> IrOk(ctx_append(context, IF ex.value THEN IrLoadConstTrue
                                                  ELSE IrLoadConstFalse))

RECURSIVE compile_ir_functions(_, _, _)
compile_ir_functions(decs, i, context) ==
  IF i > Len(decs) THEN [ok |-> TRUE, functions |-> context.functions]
  ELSE Bind(compile_ir_function(decs[i], context), LAMBDA r :
         IF ~r.ok THEN [ok |-> FALSE, msg |-> r.msg]
         ELSE compile_ir_functions(decs, i + 1, r.context))

compile_ir_module(module) ==
  compile_ir_functions(module, 1,
    [IrModuleContextNew EXCEPT
       !.declared_functions = {module[i].id : i \in 1..Len(module)}])

(***************************************************************************)
(* optimize/: the three passes, each a loop over one instruction vector    *)
(***************************************************************************)
Panic == [ok |-> FALSE, msg |-> "panic"]
Done(body) == [ok |-> TRUE, body |-> body]

\* Vec::remove and Vec::insert at 0-based positions
VecRemove(body, at) == SubSeq(body, 1, at) \o SubSeq(body, at + 2, Len(body))
VecInsert(body, at, ir) == SubSeq(body, 1, at) \o << ir >> \o SubSeq(body, at + 1, Len(body))
VecSet(body, at, ir) == [body EXCEPT ![at + 1] = ir]

RECURSIVE lift_return(_)
RECURSIVE lift_return_loop(_, _)

LiftArm_NoReturn(block) == block
LiftArm_NoRecursion(block) == Append(block, IrReturn)
\* one arm of the branch in front of a Return: push the Return, then lift inside
LiftArm(block) == lift_return(Append(block, IrReturn)).body

lift_return_loop(body, index) ==
  IF ~(index > 0) THEN Done(body)
  ELSE IF body[index + 1].op = "Return" /\ body[index].op = "Branch"
  THEN Bind(VecRemove(VecSet(body, index - 1,
                             IrBranch(LiftArm(body[index].then_block),
                                      LiftArm(body[index].else_block))),
                      index),
            LAMBDA lifted : lift_return_loop(lifted, index - 1))
  ELSE lift_return_loop(body, index - 1)

lift_return(body) ==
  IF Len(body) = 0 THEN Panic ELSE lift_return_loop(body, Len(body) - 1)

Contains(seq, x) == \E i \in 1..Len(seq) : seq[i] = x

RECURSIVE free_local(_, _)
RECURSIVE free_local_loop(_, _, _)

free_local_loop(body, index, known_locals) ==
  IF ~(index > 0) THEN body
  ELSE IF body[index].op = "LoadValue" /\ ~Contains(known_locals, body[index].local)
  THEN Bind(VecInsert(body, index, IrFreeLocal(body[index].local)), LAMBDA freed :
         free_local_loop(freed, index - 1, Append(known_locals, body[index].local)))
  ELSE IF body[index].op = "Branch"
  THEN Bind(VecSet(body, index - 1,
                   IrBranch(free_local(body[index].then_block, known_locals),
                            free_local(body[index].else_block, known_locals))),
            LAMBDA inner : free_local_loop(inner, index - 1, known_locals))
  ELSE free_local_loop(body, index - 1, known_locals)

free_local(body, prev_locals) == free_local_loop(body, Len(body), prev_locals)

RECURSIVE load_store(_)
RECURSIVE load_store_loop(_, _)

\* Store(x), Load(x) at index and index + 1
StoreLoadPair(body, index) ==
  /\ body[index + 1].op = "StoreValue"
  /\ body[index + 2].op = "LoadValue"
  /\ body[index + 1].local = body[index + 2].local
FollowedByFree(body, index) ==
  /\ body[index + 3].op = "FreeLocal"
  /\ body[index + 3].local = body[index + 2].local

load_store_branch(body, index) ==
  Bind(load_store(body[index + 1].then_block), LAMBDA then_block :
    IF ~then_block.ok THEN Panic ELSE
  Bind(load_store(body[index + 1].else_block), LAMBDA else_block :
    IF ~else_block.ok THEN Panic
    ELSE Bind(VecSet(body, index, IrBranch(then_block.body, else_block.body)),
              LAMBDA inner : load_store_loop(inner, index + 1))))

load_store_loop(body, index) ==
  IF Len(body) < 2 THEN Panic
  ELSE IF ~(index < Len(body) - 2) THEN Done(body)
  ELSE IF body[index + 1].op = "Branch" THEN load_store_branch(body, index)
  ELSE IF StoreLoadPair(body, index) /\ FollowedByFree(body, index)
  THEN Bind(SubSeq(body, 1, index) \o SubSeq(body, index + 4, Len(body)), LAMBDA drained :
         load_store_loop(drained, index))
  ELSE IF StoreLoadPair(body, index) /\ body[index + 3].op # "FreeLocal"
  THEN Bind(VecInsert(VecRemove(body, index + 1), index, IrDuplicate), LAMBDA duped :
         load_store_loop(duped, index + 1))
  ELSE load_store_loop(body, index + 1)

load_store(body) == load_store_loop(body, 0)

lift_return_opt(body) == lift_return(body)
free_local_opt(body) == Done(free_local(body, << >>))
load_store_opt(body) == load_store(body)

\* Optimizer::optimize: the registered passes in order; a panic ends the run
Optimizer_optimize(body) ==
  Bind(lift_return_opt(body), LAMBDA lifted :
    IF ~lifted.ok THEN Panic ELSE
  Bind(free_local_opt(lifted.body), LAMBDA freed : load_store_opt(freed.body)))

\* the optimizer applied to every function of a lowered module

(***************************************************************************)
(* parser.rs: what the parser builds for the source forms used below       *)
(***************************************************************************)
Float_t == NamedShape("Float")
Var(id) == VariableEx(id, shape_unknown)
Num(value) == NumberLiteralEx(value)
Bin(op, left, right) == BinaryOpEx(op, left, right, shape_unknown)
Call(id, args) == CallEx(Var(id), args, shape_unknown)
If(condition, then_block, else_block) ==
  IfEx(condition, then_block, else_block, shape_unknown)
Block(body) == BlockEx(body, shape_unknown)
Let(id, body) == AssignmentEx(id, shape_unknown, body)
\* fun id(arg: Float): Float = body, at module level and inside a block
Fun(id, arg, body) ==
  FunctionDeclarationEx(id, << Parameter(arg, Float_t) >>, Float_t, body,
                        FunctionContext(FALSE, FALSE))
LocalFun(id, arg, body) ==
  FunctionDeclarationEx(id, << Parameter(arg, Float_t) >>, Float_t, body,
                        FunctionContext(TRUE, FALSE))
\* { arg: Float => body }
Lambda(arg, body) ==
  FunctionDeclarationEx("<anon>", << Parameter(arg, Float_t) >>, shape_unknown,
                        Block(body), FunctionContext(TRUE, TRUE))

(***************************************************************************)
(* The source modules the front end is run on: a module declares           *)
(*   fun g(n: Float): Float = n     and     fun f(n: Float): Float = BODY  *)
(* in either order, BODY drawn from the families below.                    *)
(***************************************************************************)
\* how deep the if-expressions of a body nest
MaxDepth == 2
\* how many times the optimizer is run over a lowered module
MaxRounds == 2

Cond == Bin("==", Var("n"), Num(0))
Atoms == {Num(1), Var("n")}
Arith == {Bin("-", Var("n"), Num(1))}
Calls == {Call(h, << a >>) : h \in {"f", "g"}, a \in Atoms \cup Arith}
Simple == Atoms \cup Arith \cup Calls

LetBodies ==
  {Block(<< Let("x", v), t >>) :
     v \in {Num(1), Call("g", << Var("n") >>)},
     t \in {Var("x"), Call("f", << Var("x") >>), Bin("+", Var("x"), Var("n"))}}

Arms == Simple \cup LetBodies \cup {Block(<< >>), Block(<< Call("f", << Var("n") >>) >>)}
FlatIfs == {If(Cond, a, b) : a, b \in Arms}

Leaves == {Num(1), Call("f", << Bin("-", Var("n"), Num(1)) >>), Call("g", << Var("n") >>)}
RECURSIVE Nest(_)
Nest(d) ==
  IF d = 0 THEN Leaves
  ELSE {If(Cond, a, b) : a \in Nest(d - 1), b \in Leaves}
         \cup {If(Cond, b, a) : a \in Nest(d - 1), b \in Leaves}
NestedIfs == Nest(MaxDepth)

\* an if that is not in tail position: its value is stored or dropped
NonTailIfs ==
  {Block(<< Let("x", If(Cond, a, b)), t >>) :
     a, b \in {Num(1), Bin("-", Var("n"), Num(1)), Call("f", << Var("n") >>)},
     t \in {Var("x"), Call("g", << Var("x") >>)}}

LambdaBodies ==
  {<< Var("y") >>, << Bin("+", Var("y"), Var("n")) >>, << Bin("+", Var("n"), Var("n")) >>,
   << Bin("+", Var("y"), Var("x")) >>, << Call("g", << Var("y") >>) >>,
   << Call("f", << Var("y") >>) >>,
   << Let("m", Lambda("z", << Bin("+", Var("z"), Var("n")) >>)), Call("m", << Var("y") >>) >>}
WithLambda ==
  {Block(<< Let("x", Num(1)), Let("h", Lambda("y", lb)), Call("h", << Var("n") >>) >>) :
     lb \in LambdaBodies}

LocalBodies ==
  {Var("k"), Bin("+", Var("k"), Var("n")), Call("f", << Var("k") >>),
   Call("g", << Var("k") >>),
   If(Bin("==", Var("k"), Num(0)), Num(0), Call("h", << Bin("-", Var("k"), Num(1)) >>)),
   If(Bin("==", Var("k"), Num(0)), Var("n"), Call("h", << Bin("-", Var("k"), Num(1)) >>))}
WithLocalFun ==
  {Block(<< LocalFun("h", "k", hb), Call("h", << Var("n") >>) >>) : hb \in LocalBodies}

\* sources the type checker or the lowering turns down
IllFormed ==
  {Var("zz"), Call("n", << Num(1) >>), Call("g", << >>),
   Bin("+", Var("n"), StringLiteralEx("s")),
   Block(<< Let("n", Num(1)), Var("n") >>),
   Block(<< Let("h", Lambda("y", << Call("h", << Var("y") >>) >>)), Num(1) >>)}

\* the function's own name bound again inside it
Shadowing ==
  {Block(<< Let("f", Num(1)), Var("f") >>),
   Block(<< Let("x", Call("f", << Var("n") >>)), Let("f", Var("x")), Var("f") >>),
   Block(<< LocalFun("h", "f", Var("f")), Call("h", << Var("n") >>) >>),
   Block(<< LocalFun("h", "k", Call("f", << Var("k") >>)), Call("f", << Var("n") >>) >>)}

\* a let whose variable is tested by an if and used in its arms
LetThenIf ==
  {Block(<< Let("x", Bin("-", Var("n"), Num(1))),
            If(Bin("==", Var("x"), Num(0)), a, b) >>) :
     a, b \in {Num(1), Var("x"), Var("n")}}

\* a nested function that captures the enclosing module function, which itself
\* refers to another module function
CapturedFunction ==
  {Block(<< LocalFun("h", "k", Call("f", << Var("k") >>)),
            Call("g", << Call("h", << Var("n") >>) >>) >>)}

\* operations on two operands of the same shape that is not Float
StringOps ==
  {Bin("+", StringLiteralEx("a"), StringLiteralEx("b")),
   Block(<< Let("x", Bin("==", StringLiteralEx("a"), StringLiteralEx("b"))), Num(1) >>),
   Block(<< Let("s", StringLiteralEx("a")), Bin("-", Var("s"), Var("s")) >>),
   Block(<< Let("x", Bin("<", Var("n"), Num(1))), Bin("*", Var("n"), Num(2)) >>)}

\* a module function used as a value: bound by a let and called through it
FunctionAsValue ==
  {Block(<< Let("h", Var(v)), Call("h", << Var("n") >>) >>) : v \in {"g", "f"}}

\* a let whose variable is used in the arms of an if that tests something else,
\* next to a let of an arm's own
LetUsedInArms ==
  {Block(<< Let("x", Bin("-", Var("n"), Num(1))), If(Cond, a, b) >>) :
     a, b \in {Var("x"),
                Block(<< Let("y", Num(2)), Bin("+", Var("y"), Var("x")) >>)}}

Bodies ==
  Simple \cup Shadowing \cup LetBodies \cup FlatIfs \cup NestedIfs \cup NonTailIfs
         \cup WithLambda \cup WithLocalFun \cup IllFormed \cup {Block(<< >>)}
         \cup LetThenIf \cup CapturedFunction \cup StringOps \cup FunctionAsValue
         \cup LetUsedInArms

Sources ==
  {<< Fun("g", "n", Var("n")), Fun("f", "n", body) >> : body \in Bodies}
    \cup {<< Fun("f", "n", body), Fun("g", "n", Var("n")) >> : body \in Bodies}

(***************************************************************************)
(* The front end as a state machine: check, lower, optimize                *)
(***************************************************************************)
InitPipe ==
  /\ source \in Sources
  /\ stage = "parsed"
  /\ checked = << >>
  /\ lowered = << >>
  /\ optimized = << >>
  /\ VMIdle
  /\ CompilerIdle
  /\ ListIdle
  /\ ScopeIdle
  /\ FillIdle

\* typechecker::check_module
CheckModule ==
  /\ stage = "parsed"
  /\ \E r \in {check_module(source)} :
       IF r.ok THEN stage' = "checked" /\ checked' = r.functions
       ELSE stage' = "rejected" /\ UNCHANGED checked
  /\ UNCHANGED <<source, lowered, optimized, notPipe>>

\* ir::compile_ir_module
CompileIr ==
  /\ stage = "checked"
  /\ \E r \in {compile_ir_module(checked)} :
       IF r.ok THEN stage' = "lowered" /\ lowered' = r.functions
       ELSE stage' = "failed" /\ UNCHANGED lowered
  /\ UNCHANGED <<source, checked, optimized, notPipe>>

\* the bodies the next optimizer run starts from
CurrentBodies ==
  IF optimized = << >> THEN [name \in DOMAIN lowered |-> lowered[name].body]
  ELSE Last(optimized)

\* Optimizer::optimize over every function of the module; a panic in any ends the run
Optimize ==
  /\ stage \in {"lowered", "optimized"}
  /\ Len(optimized) < MaxRounds
  /\ \E rs \in {[name \in DOMAIN CurrentBodies |-> Optimizer_optimize(CurrentBodies[name])]} :
       IF \A name \in DOMAIN rs : rs[name].ok
       THEN /\ stage' = "optimized"
            /\ optimized' = Append(optimized, [name \in DOMAIN rs |-> rs[name].body])
       ELSE stage' = "panicked" /\ UNCHANGED optimized
  /\ UNCHANGED <<source, checked, lowered, notPipe>>

NextPipe == CheckModule \/ CompileIr \/ Optimize

SpecPipe == InitPipe /\ [][NextPipe]_vars

(***************************************************************************)
(* Tail position and the optimizer's output (C3, C4, C7)                   *)
(***************************************************************************)
\* the function declarations of an expression, nested ones before their parent
RECURSIVE FunsOf(_)
RECURSIVE FunsOfAll(_, _)
FunsOfAll(exs, i) == IF i > Len(exs) THEN << >> ELSE FunsOf(exs[i]) \o FunsOfAll(exs, i + 1)
FunsOf(ex) ==
  CASE ex.e = "Fun" -> FunsOf(ex.body) \o << ex >>
    [] ex.e = "Assign" -> FunsOf(ex.body)
    [] ex.e = "BinOp" -> FunsOf(ex.left) \o FunsOf(ex.right)
    [] ex.e = "Call" -> FunsOf(ex.func) \o FunsOfAll(ex.args, 1)
    [] ex.e = "If" -> FunsOf(ex.condition) \o FunsOf(ex.then_block) \o FunsOf(ex.else_block)
    [] ex.e = "Block" -> FunsOfAll(ex.body, 1)
    [] OTHER -> << >>

\* every function of the checked module
CheckedFuns == FunsOfAll(checked, 1)
\* the functions whose IR the module holds: the last one lowered under each id
StoredFuns ==
  {CheckedFuns[i] : i \in {j \in 1..Len(CheckedFuns) :
                             \A k \in (j + 1)..Len(CheckedFuns) :
                                CheckedFuns[k].id # CheckedFuns[j].id}}

\* One entry for every call and operator application of a function body, in the
\* order they are evaluated: TRUE for a call expression in tail position, that is
\* the body itself, the last expression of a block in tail position, or an arm
\* of an if in tail position.
RECURSIVE SrcCalls(_, _)
RECURSIVE SrcCallsAll(_, _, _)
SrcCallsAll(exs, i, tail) ==
  IF i > Len(exs) THEN << >>
  ELSE SrcCalls(exs[i], tail /\ i = Len(exs)) \o SrcCallsAll(exs, i + 1, tail)
SrcCalls(ex, tail) ==
  CASE ex.e = "Assign" -> SrcCalls(ex.body, FALSE)
    [] ex.e = "BinOp" -> SrcCalls(ex.left, FALSE) \o SrcCalls(ex.right, FALSE) \o << FALSE >>
    [] ex.e = "Call" -> SrcCalls(ex.func, FALSE) \o SrcCallsAll(ex.args, 1, FALSE) \o << tail >>
    [] ex.e = "If" -> SrcCalls(ex.condition, FALSE) \o SrcCalls(ex.then_block, tail)
                        \o SrcCalls(ex.else_block, tail)
    [] ex.e = "Block" -> SrcCallsAll(ex.body, 1, tail)
    [] OTHER -> << >>

\* a body with its FreeLocal markers dropped, inside branches too
RECURSIVE DropFree(_)
DropFree(body) ==
  IF body = << >> THEN << >>
  ELSE LET rest == DropFree(Tail(body))
           head == Head(body)
       IN IF head.op = "FreeLocal" THEN rest
          ELSE IF head.op = "Branch"
          THEN << IrBranch(DropFree(head.then_block), DropFree(head.else_block)) >> \o rest
          ELSE << head >> \o rest

\* One entry for every call instruction of a body, in order, the arms of a branch
\* in place of the branch: TRUE if the next instruction is Return.
RECURSIVE IrCalls(_, _)
IrCalls(body, i) ==
  IF i > Len(body) THEN << >>
  ELSE (IF body[i].op \in {"CallStatic", "CallDynamic"}
        THEN << i < Len(body) /\ body[i + 1].op = "Return" >>
        ELSE IF body[i].op = "Branch"
        THEN IrCalls(body[i].then_block, 1) \o IrCalls(body[i].else_block, 1)
        ELSE << >>) \o IrCalls(body, i + 1)

TailCallsReturn(func, body) ==
  LET src == SrcCalls(func.body, TRUE)
      ir == IrCalls(DropFree(body), 1)
  IN /\ Len(src) = Len(ir)
     /\ \A k \in 1..Len(src) : src[k] => ir[k]

\* C3: once a module is lowered and optimized, every call that is in tail
\* position in the source of a function (the last expression of either arm of
\* an if in tail position included, at any depth) is immediately followed by
\* Return in that function's body, FreeLocal markers dropped.
C3_TailCallsFollowedByReturn ==
  stage = "optimized" =>
    \A r \in 1..Len(optimized) : \A func \in StoredFuns :
       TailCallsReturn(func, optimized[r][func.id])

\* a tail call two ifs deep has come through the optimizer
C3_Witness ==
  /\ stage = "optimized"
  /\ \E func \in StoredFuns :
       /\ func.body.e = "If"
       /\ func.body.then_block.e = "If"
       /\ func.body.then_block.else_block.e = "Call"
       /\ optimized[1][func.id][Len(optimized[1][func.id])].op = "Branch"

\* C4: running the optimizer a second time leaves every body as the first run
\* left it.
C4_OptimizeIdempotent ==
  Len(optimized) >= 2 => optimized[2] = optimized[1]

\* every control path ends at a Return: the body ends with Return, or with a
\* Branch both of whose arms do
RECURSIVE EndsAtReturn(_)
EndsAtReturn(body) ==
  /\ Len(body) > 0
  /\ \/ Last(body).op = "Return"
     \/ /\ Last(body).op = "Branch"
        /\ EndsAtReturn(Last(body).then_block)
        /\ EndsAtReturn(Last(body).else_block)

\* C7: every control path of an optimized body ends at a Return, and lifting
\* the returns of a body whose paths end at a Return gives such a body again.
C7_EveryPathReturns ==
  /\ \A r \in 1..Len(optimized) : \A name \in DOMAIN optimized[r] :
       EndsAtReturn(optimized[r][name])
  /\ stage \in {"lowered", "optimized"} =>
       \A name \in DOMAIN CurrentBodies :
          /\ EndsAtReturn(CurrentBodies[name])
          /\ EndsAtReturn(lift_return(CurrentBodies[name]).body)

\* a Return has been lifted into the arms of a branch nested in a branch
C7_Witness ==
  /\ stage = "optimized"
  /\ \E name \in DOMAIN optimized[1] :
       LET body == optimized[1][name]
       IN /\ Last(body).op = "Branch"
          /\ Len(Last(body).else_block) > 0
          /\ Last(Last(body).else_block).op = "Branch"
          /\ lowered[name].body[Len(lowered[name].body)].op = "Return"

(***************************************************************************)
(* Captures and recursion after check_module (C9, C10)                     *)
(***************************************************************************)
ParamIds(func) == {func.args[i].id : i \in 1..Len(func.args)}
OwnName(func) == IF func.context.is_lambda THEN {} ELSE {func.id}
\* the names a statement of a block declares for the statements after it
Declares(ex) ==
  CASE ex.e = "Assign" -> {ex.id}
    [] ex.e = "Fun" -> OwnName(ex)
    [] OTHER -> {}

\* The variables that occur free in an expression, given the names bound around
\* it, by lexical scope; deep: occurrences inside nested functions count too.
RECURSIVE Free(_, _, _)
RECURSIVE FreeSeq(_, _, _, _)
RECURSIVE FreeArgs(_, _, _, _)
FreeArgs(exs, i, bound, deep) ==
  IF i > Len(exs) THEN {} ELSE Free(exs[i], bound, deep) \cup FreeArgs(exs, i + 1, bound, deep)
FreeSeq(stmts, i, bound, deep) ==
  IF i > Len(stmts) THEN {}
  ELSE Free(stmts[i], bound, deep)
         \cup FreeSeq(stmts, i + 1, bound \cup Declares(stmts[i]), deep)
Free(ex, bound, deep) ==
  CASE ex.e = "Var" -> IF ex.id \in bound THEN {} ELSE {ex.id}
    [] ex.e = "BinOp" -> Free(ex.left, bound, deep) \cup Free(ex.right, bound, deep)
    [] ex.e = "Call" -> Free(ex.func, bound, deep) \cup FreeArgs(ex.args, 1, bound, deep)
    [] ex.e = "If" -> Free(ex.condition, bound, deep) \cup Free(ex.then_block, bound, deep)
                        \cup Free(ex.else_block, bound, deep)
    [] ex.e = "Block" -> FreeSeq(ex.body, 1, bound, deep)
    [] ex.e = "Assign" -> Free(ex.body, bound, deep)
    [] ex.e = "Fun" -> IF deep
                       THEN Free(ex.body, bound \cup OwnName(ex) \cup ParamIds(ex), deep)
                       ELSE {}
    [] OTHER -> {}

\* the free variables of a function: of its body, its parameters bound
FreeOfFun(func) == Free(func.body, ParamIds(func), TRUE)

\* For every function nested in an expression: the function, and its free
\* variables that are locals of the functions around it (its own name aside).
\* env: the locals of the enclosing functions in scope at the expression.
RECURSIVE Captures(_, _)
RECURSIVE CapturesSeq(_, _, _)
RECURSIVE CapturesArgs(_, _, _)
CapturesArgs(exs, i, env) ==
  IF i > Len(exs) THEN {} ELSE Captures(exs[i], env) \cup CapturesArgs(exs, i + 1, env)
CapturesSeq(stmts, i, env) ==
  IF i > Len(stmts) THEN {}
  ELSE Captures(stmts[i], env) \cup CapturesSeq(stmts, i + 1, env \cup Declares(stmts[i]))
Captures(ex, env) ==
  CASE ex.e = "Fun" ->
         {[func |-> ex, free |-> (FreeOfFun(ex) \cap (env \cup OwnName(ex))) \ {ex.id}]}
           \cup Captures(ex.body, env \cup OwnName(ex) \cup ParamIds(ex))
    [] ex.e = "BinOp" -> Captures(ex.left, env) \cup Captures(ex.right, env)
    [] ex.e = "Call" -> Captures(ex.func, env) \cup CapturesArgs(ex.args, 1, env)
    [] ex.e = "If" -> Captures(ex.condition, env) \cup Captures(ex.then_block, env)
                        \cup Captures(ex.else_block, env)
    [] ex.e = "Block" -> CapturesSeq(ex.body, 1, env)
    [] ex.e = "Assign" -> Captures(ex.body, env)
    [] OTHER -> {}

ClosureIds(func) == {func.context.closures[i].id : i \in 1..Len(func.context.closures)}

\* C9: after check_module the closures of every function are exactly its free
\* variables (those inside functions nested in it included) that are locals of
\* a function around it; a module-level function has none.
C9_ClosuresAreFreeLocals ==
  stage = "checked" =>
    \A i \in 1..Len(checked) :
       /\ checked[i].context.closures = << >>
       /\ \A c \in Captures(checked[i].body, ParamIds(checked[i])) :
            ClosureIds(c.func) = c.free

\* a function's body refers to the function by its own name: a variable with
\* the function's id, outside the functions nested in it, that no parameter or
\* earlier declaration of the body binds
RefersToItself(func) == func.id \in Free(func.body, ParamIds(func), FALSE)

CoreContextNew ==
  [function_map |->
     [name \in {"Core.+", "Core.-", "Core.*", "Core./"} |->
        SimpleFunctionShape(<< shape_float, shape_float >>, shape_float)]]

BlockContextNew(max_locals) == [max_locals |-> max_locals, locals |-> EmptyMap]
FuncContextNew == [max_locals |-> 0, local |-> << BlockContextNew(0) >>]

ModuleContextNew ==
  [core |-> CoreContextNew, package |-> Package, module |-> Module,
   functions |-> EmptyMap,
   function_ref_map |-> EmptyMap, function_refs |-> << >>,
   shape_refs |-> << >>,
   string_constant_map |-> EmptyMap, string_constants |-> << >>,
   function_context |-> << >>]

\* FunctionRef { package, module, name, shape }
CompilerFunctionRef(context, name, shape) ==
  [package |-> context.package, module |-> context.module, name |-> name, shape |-> shape]

\* what an interning operation hands back: the table index and the context after it
Interned(id, context) == [id |-> id, context |-> context]

\* HashMap::len
MapLen(map) == Cardinality(DOMAIN map)

add_function_ref(context, name, shape) ==
  IF name \in DOMAIN context.function_ref_map
  THEN Interned(context.function_ref_map[name][1], context)
  ELSE Interned(MapLen(context.function_ref_map),
         [context EXCEPT
            !.function_ref_map =
               MapPut(@, name, << MapLen(context.function_ref_map),
                                  CompilerFunctionRef(context, name, shape) >>),
            !.function_refs = Append(@, CompilerFunctionRef(context, name, shape))])

lookup_core(context, name) ==
  IF name \in DOMAIN context.core.function_map
  THEN [some |-> TRUE, shape |-> context.core.function_map[name]]
  ELSE [some |-> FALSE]

\* the innermost block of a function that binds the name, or 0
BindingBlock(func, name) ==
  IF \E b \in 1..Len(func.local) : name \in DOMAIN func.local[b].locals
  THEN CHOOSE b \in 1..Len(func.local) :
         /\ name \in DOMAIN func.local[b].locals
         /\ \A c \in (b + 1)..Len(func.local) : name \notin DOMAIN func.local[c].locals
  ELSE 0

\* the innermost function context, of all on the stack, that binds the name, or 0
BindingFunction(context, name) ==
  IF \E f \in 1..Len(context.function_context) :
       BindingBlock(context.function_context[f], name) # 0
  THEN CHOOSE f \in 1..Len(context.function_context) :
         /\ BindingBlock(context.function_context[f], name) # 0
         /\ \A g \in (f + 1)..Len(context.function_context) :
              BindingBlock(context.function_context[g], name) = 0
  ELSE 0

\* FuncContext::lookup / BlockContext::lookup, the name known to be bound
FuncContext_lookup(func, name) == func.local[BindingBlock(func, name)].locals[name]

\* ModuleContext::lookup: Lookup::Local, Lookup::Static or the error
lookup(context, name) ==
  IF BindingFunction(context, name) # 0
  THEN [ok |-> TRUE, kind |-> "Local", context |-> context,
        id |-> FuncContext_lookup(context.function_context[BindingFunction(context, name)],
                                  name)]
  ELSE IF name \in DOMAIN context.function_ref_map
  THEN [ok |-> TRUE, kind |-> "Static", id |-> context.function_ref_map[name][1],
        context |-> context]
  ELSE IF lookup_core(context, name).some
  THEN Bind(add_function_ref(context, name, lookup_core(context, name).shape), LAMBDA r :
         [ok |-> TRUE, kind |-> "Static", id |-> r.id, context |-> r.context])
  ELSE [ok |-> FALSE, panic |-> FALSE, msg |-> "Variable not found in compiler context"]

lookup_string_constant(context, str) ==
  IF str \in DOMAIN context.string_constant_map
  THEN Interned(context.string_constant_map[str], context)
  ELSE Interned(MapLen(context.string_constant_map),
         [context EXCEPT
            !.string_constant_map = MapPut(@, str, MapLen(context.string_constant_map)),
            !.string_constants = Append(@, str)])

\* mutant: the position of an equal shape is not looked for
lookup_shape_AlwaysPush(context, shape) ==
  Interned(Len(context.shape_refs), [context EXCEPT !.shape_refs = Append(@, shape)])

lookup_shape(context, shape) ==
  IF \E i \in 1..Len(context.shape_refs) : context.shape_refs[i] = shape
  THEN Interned((CHOOSE i \in 1..Len(context.shape_refs) :
                   /\ context.shape_refs[i] = shape
                   /\ \A j \in 1..(i - 1) : context.shape_refs[j] # shape) - 1,
                context)
  ELSE Interned(Len(context.shape_refs), [context EXCEPT !.shape_refs = Append(@, shape)])

add_function(context, id, func) ==
  [context EXCEPT !.functions = MapPut(@, id, func)]

push_function(context) ==
  [context EXCEPT !.function_context = Append(@, FuncContextNew)]

\* the FuncContext popped, and the context without it
pop_function(context) ==
  [func |-> Last(context.function_context),
   context |-> [context EXCEPT !.function_context = SubSeq(@, 1, Len(@) - 1)]]

\* BlockContext::store on the innermost block of the innermost function
store(context, id) ==
  LET f == Len(context.function_context)
      b == Len(context.function_context[f].local)
      local_id == context.function_context[f].local[b].max_locals
  IN [local |-> local_id,
      context |-> [context EXCEPT
         !.function_context[f].local[b] =
            [max_locals |-> local_id + 1, locals |-> MapPut(@.locals, id, local_id)]]]

push_scope(context) ==
  LET f == Len(context.function_context)
  IN [context EXCEPT !.function_context[f].local =
        Append(@, BlockContextNew(Last(@).max_locals))]

Max(a, b) == IF a > b THEN a ELSE b

pop_scope(context) ==
  LET f == Len(context.function_context)
      func == context.function_context[f]
  IN IF func.local = << >> THEN context
     ELSE [context EXCEPT !.function_context[f] =
             [max_locals |-> Max(func.max_locals, Last(func.local).max_locals),
              local |-> SubSeq(func.local, 1, Len(func.local) - 1)]]

(***************************************************************************)
(* compiler.rs: compile_function and Compilable::compile                   *)
(***************************************************************************)
\* Instruction::CallDynamic { shape_id }, as compiler.rs builds it
CallDynamicShape(shape_id) == [op |-> "CallDynamic", shape_id |-> shape_id]

CompOk(body, context) == [ok |-> TRUE, body |-> body, context |-> context]
CompErr(msg) == [ok |-> FALSE, panic |-> FALSE, msg |-> msg]
\* unimplemented!()
CompPanic == [ok |-> FALSE, panic |-> TRUE, msg |-> "not implemented"]

\* BitFunction { package, module, name, max_locals, shape, body, source }
CompiledBitFunction(context, ex, max_locals, body) ==
  [package |-> context.package, module |-> context.module, name |-> ex.id,
   max_locals |-> max_locals, shape |-> FunShape(ex), body |-> body]

RECURSIVE store_all(_, _, _)
store_all(context, params, i) ==
  IF i > Len(params) THEN context
  ELSE Bind(store(context, params[i].id), LAMBDA stored :
         store_all(stored.context, params, i + 1))

RECURSIVE compile_expression(_, _)
RECURSIVE compile_all(_, _, _, _)
RECURSIVE compile_function(_, _)
RECURSIVE FunctionDeclarationEx_compile(_, _)
RECURSIVE AssignmentEx_compile(_, _)
RECURSIVE BinaryOpEx_compile(_, _)
RECURSIVE CallEx_compile(_, _)
RECURSIVE CallEx_compile_dynamic(_, _)
RECURSIVE BlockEx_compile(_, _)

\* for next in exs { content.append(compile_expression(context, next)?) }
compile_all(context, exs, i, content) ==
  IF i > Len(exs) THEN CompOk(content, context)
  ELSE Bind(compile_expression(context, exs[i]), LAMBDA next :
         IF ~next.ok THEN next
         ELSE compile_all(next.context, exs, i + 1, content \o next.body))

\* if we don't end with a return, add one anyway
EndWithReturn(body) ==
  IF body # << >> /\ Last(body) = Return THEN body ELSE Append(body, Return)

compile_function(context, ex) ==
  Bind(store_all(push_function(context), ex.context.closures, 1), LAMBDA captured :
  Bind(store_all(captured, ex.args, 1), LAMBDA entered :
  Bind(compile_expression(entered, ex.body), LAMBDA body :
    IF ~body.ok THEN body ELSE
  Bind(pop_function(body.context), LAMBDA popped :
    [ok |-> TRUE, context |-> popped.context,
     func |-> CompiledBitFunction(context, ex, popped.func.max_locals + 1,
                                  EndWithReturn(body.body))]))))

\* the loads of the captured variables in front of BuildClosure
RECURSIVE load_captured(_, _, _, _)
load_captured(context, closures, i, body) ==
  IF i > Len(closures) THEN CompOk(body, context)
  ELSE Bind(lookup(context, closures[i].id), LAMBDA found :
         IF ~found.ok THEN found
         ELSE load_captured(found.context, closures, i + 1,
                Append(body, IF found.kind = "Local" THEN LoadValue(found.id)
                             ELSE LoadConstFunction(found.id))))

\* compile_function, add_function_ref, add_function, then the instruction that
\* makes the function value and the store under the function's name
FunctionDeclarationEx_compile(self, context) ==
  Bind(load_captured(context, self.context.closures, 1, << >>), LAMBDA loads :
    IF ~loads.ok THEN loads ELSE
  Bind(compile_function(loads.context, self), LAMBDA bit_func :
    IF ~bit_func.ok THEN bit_func ELSE
  Bind(add_function_ref(bit_func.context, self.id, FunShape(self)), LAMBDA ref :
  Bind(add_function(ref.context, self.id, bit_func.func), LAMBDA added :
  Bind(IF self.context.closures = << >>
       THEN << LoadConstFunction(ref.id) >>
       ELSE Append(loads.body, BuildClosure(Len(self.context.closures), ref.id)),
       LAMBDA body :
    IF self.context.is_lambda THEN CompOk(body, added)
    ELSE Bind(store(added, self.id), LAMBDA stored :
           CompOk(Append(body, StoreValue(stored.local)), stored.context)))))))

AssignmentEx_compile(self, context) ==
  Bind(compile_expression(context, self.body), LAMBDA assign :
    IF ~assign.ok THEN assign ELSE
  Bind(store(assign.context, self.id), LAMBDA stored :
    CompOk(Append(assign.body, StoreValue(stored.local)), stored.context)))

VariableEx_compile(self, context) ==
  Bind(lookup(context, self.id), LAMBDA found :
    IF ~found.ok THEN found
    ELSE IF found.kind = "Local" THEN CompOk(<< LoadValue(found.id) >>, found.context)
    ELSE CompOk(<< LoadConstFunction(found.id) >>, found.context))

BinaryOpEx_compile(self, context) ==
  Bind(compile_expression(context, self.left), LAMBDA left :
    IF ~left.ok THEN left ELSE
  Bind(compile_expression(left.context, self.right), LAMBDA right :
    IF ~right.ok THEN right ELSE
  Bind(lookup(right.context, "Core." \o self.op), LAMBDA found :
    IF ~found.ok THEN found
    ELSE IF found.kind = "Static"
    THEN CompOk(left.body \o right.body \o << CallStatic(found.id) >>, found.context)
    ELSE CompErr("Could not look up Core operator function"))))

CallEx_compile_dynamic(self, context) ==
  Bind(compile_expression(context, self.func), LAMBDA function :
    IF ~function.ok THEN function ELSE
  Bind(compile_all(function.context, self.args, 1, function.body), LAMBDA body :
    IF ~body.ok THEN body ELSE
  Bind(lookup_shape(body.context, ShapeOf(self.func)), LAMBDA shape :
    CompOk(Append(body.body, CallDynamicShape(shape.id)), shape.context))))

CallEx_compile(self, context) ==
  IF self.func.e = "Var"
  THEN Bind(lookup(context, self.func.id), LAMBDA found :
         IF ~found.ok THEN found
         ELSE IF found.kind = "Static"
         THEN Bind(compile_all(found.context, self.args, 1, << >>), LAMBDA body :
                IF ~body.ok THEN body
                ELSE CompOk(Append(body.body, CallStatic(found.id)), body.context))
         ELSE CallEx_compile_dynamic(self, found.context))
  ELSE CallEx_compile_dynamic(self, context)

BlockEx_compile(self, context) ==
  Bind(compile_all(push_scope(context), self.body, 1, << >>), LAMBDA content :
    IF ~content.ok THEN content
    ELSE CompOk(IF content.body = << >> THEN << LoadConstNull >> ELSE content.body,
                pop_scope(content.context)))

StringLiteralEx_compile(self, context) ==
  Bind(lookup_string_constant(context, self.value), LAMBDA const :
    CompOk(<< LoadConstString(const.id) >>, const.context))

NumberLiteralEx_compile(self, context) == CompOk(<< LoadConstFloat(self.value) >>, context)

compile_expression(context, ex) ==
  CASE ex.e = "Fun" -> FunctionDeclarationEx_compile(ex, context)
    [] ex.e = "Assign" -> AssignmentEx_compile(ex, context)
    [] ex.e = "Var" -> VariableEx_compile(ex, context)
    [] ex.e = "BinOp" -> BinaryOpEx_compile(ex, context)
    [] ex.e = "Call" -> CallEx_compile(ex, context)
    [] ex.e = "Block" -> BlockEx_compile(ex, context)
    [] ex.e = "Str" -> StringLiteralEx_compile(ex, context)
    [] ex.e = "Num" -> NumberLiteralEx_compile(ex, context)
    [] OTHER -> CompPanic

\* compile_module's first loop: a function ref for every declaration
RECURSIVE add_function_refs(_, _, _)
add_function_refs(context, decs, i) ==
  IF i > Len(decs) THEN context
  ELSE Bind(add_function_ref(context, decs[i].id, FunShape(decs[i])), LAMBDA ref :
         add_function_refs(ref.context, decs, i + 1))

(***************************************************************************)
(* The modules compile_module is run on: a module declares                 *)
(*   fun g(n: Float): Float = n   and   fun f(a: Float, ...): Float = BODY *)
(* in either order, f with one to MaxArgs parameters.                      *)
(***************************************************************************)
\* how many parameters f has at most
MaxArgs == 3

ParamNames == << "a", "b", "c", "d", "e" >>

\* fun id(params: Float ...): Float = body
FunOf(id, params, body) ==
  FunctionDeclarationEx(id, [i \in 1..Len(params) |-> Parameter(params[i], Float_t)],
                        Float_t, body, FunctionContext(FALSE, FALSE))

\* the variables of a parameter list, as call arguments
ArgsOf(params) == [i \in 1..Len(params) |-> Var(params[i])]

\* bodies that are a single expression; p is the last of f's parameters
ExpressionBodies(params, p) ==
  {Var(p), Num(1), Bin("+", Var("a"), Var(p)),
   Bin("*", Bin("+", Var("a"), Var(p)), Bin("+", Var(p), Num(2))),
   Call("g", << Var(p) >>), Call("f", ArgsOf(params)),
   Call("g", << Call("g", << Var(p) >>) >>)}

\* bodies that are a block with let-bindings, nested blocks and string constants
BlockBodies(params, p) ==
  {Block(<< Var(p) >>), Block(<< Let("u", Block(<< >>)), Var(p) >>),
   Block(<< Let("x", Var(p)), Let("y", Bin("-", Var("x"), Num(1))), Var("y") >>),
   Block(<< Let("x", Block(<< Let("y", Num(1)), Let("z", Var("y")), Var("z") >>)),
            Let("w", Var(p)), Bin("/", Var("x"), Var("w")) >>),
   Block(<< Let("s", StringLiteralEx("hi")), Let("t", StringLiteralEx("yo")),
            Let("u", StringLiteralEx("hi")), Var(p) >>),
   Block(<< Let("x", Call("g", << Var(p) >>)), Call("g", << Var("x") >>) >>)}

\* bodies that declare local functions and lambdas, with and without captures
FunctionBodies(params, p) ==
  {Block(<< LocalFun("h", "k", Var("k")), Call("h", << Var(p) >>) >>),
   Block(<< LocalFun("h", "k", Bin("+", Var("k"), Var(p))), Call("h", << Var("a") >>) >>),
   Block(<< LocalFun("h", "k", Bin("+", Bin("+", Var("k"), Var(p)), Var("a"))),
            Let("x", Call("h", << Var("a") >>)), Call("h", << Var("x") >>) >>),
   Block(<< LocalFun("h", "k", Call("h", << Var("k") >>)), Call("h", << Var(p) >>) >>),
   Block(<< Let("m", Lambda("y", << Bin("+", Var("y"), Var(p)) >>)),
            Call("m", << Var("a") >>) >>),
   Block(<< Let("m", Lambda("y", << Let("z", Var("y")), Bin("+", Var("z"), Var(p)) >>)),
            Let("x", Call("m", << Var("a") >>)), Call("g", << Var("x") >>) >>),
   Block(<< Let("m", Lambda("y", << Bin("+", Var("y"), Var(p)) >>)),
            Let("q", Lambda("y", << StringLiteralEx("hi") >>)),
            Let("s", Call("q", << Var("a") >>)), Let("t", StringLiteralEx("yo")),
            Let("u", StringLiteralEx("hi")), Let("x", Call("m", << Var("a") >>)),
            Bin("+", Call("m", << Var("x") >>), Var("a")) >>)}

\* bodies compile_expression has no case for, or looks an operator up in vain for
Uncompilable(params, p) ==
  {If(Bin("==", Var(p), Num(0)), Num(1), Var("a")),
   Block(<< Let("t", Bin("==", Var("a"), Var(p))), Var(p) >>)}

CompilerBodies(params) ==
  ExpressionBodies(params, Last(params)) \cup BlockBodies(params, Last(params))
    \cup FunctionBodies(params, Last(params)) \cup Uncompilable(params, Last(params))

\* the modules whose f has k parameters
ModulesOf(k) ==
  UNION {{<< Fun("g", "n", Var("n")), FunOf("f", SubSeq(ParamNames, 1, k), body) >>,
          << FunOf("f", SubSeq(ParamNames, 1, k), body), Fun("g", "n", Var("n")) >>} :
           body \in CompilerBodies(SubSeq(ParamNames, 1, k))}

CompilerSources == UNION {ModulesOf(k) : k \in 1..MaxArgs}

(***************************************************************************)
(* compile_module as a state machine: check_module, then the function refs *)
(* of the declarations, then compile_function for one declaration after    *)
(* the other.  The BitModule is the context's tables once the last         *)
(* declaration is compiled; the optimizer call that follows in             *)
(* compile_module takes a BitModule and a BitFunction, which               *)
(* Optimizer::optimize does not, and is left out.                          *)
(***************************************************************************)
notCompiler == <<vmVars, source, checked, lowered, optimized, listVars, scopeVars, fillVars>>

InitCompiler ==
  /\ source \in CompilerSources
  /\ stage = "parsed"
  /\ checked = << >>
  /\ lowered = << >>
  /\ optimized = << >>
  /\ VMIdle
  /\ CompilerIdle
  /\ ListIdle
  /\ ScopeIdle
  /\ FillIdle

\* compile_module: ModuleContext::new and add_function_ref for every declaration
AddFunctionRefs ==
  /\ stage = "checked"
  /\ stage' = "compiling"
  /\ module_context' = add_function_refs(ModuleContextNew, checked, 1)
  /\ raw_funcs' = EmptyMap
  /\ dec_index' = 0
  /\ UNCHANGED notCompiler

\* compile_module: compile_function for the next declaration
CompileFunction ==
  /\ stage = "compiling"
  /\ dec_index < Len(checked)
  /\ \E r \in {compile_function(module_context, checked[dec_index + 1])} :
       IF r.ok
       THEN /\ module_context' = r.context
            /\ raw_funcs' = MapPut(raw_funcs, checked[dec_index + 1].id, r.func)
            /\ dec_index' = dec_index + 1
            /\ stage' = IF dec_index + 1 = Len(checked) THEN "compiled" ELSE "compiling"
       ELSE /\ stage' = IF r.panic THEN "panicked" ELSE "failed"
            /\ UNCHANGED compVars
  /\ UNCHANGED notCompiler

NextCompiler == CheckModule \/ AddFunctionRefs \/ CompileFunction

SpecCompiler == InitCompiler /\ [][NextCompiler]_vars

(***************************************************************************)
(* Locals and constant tables of the compiled module (C5, C6)              *)
(***************************************************************************)
\* compile_module has a context: the function refs are in, maybe some functions
Compiling == stage \in {"compiling", "compiled"}

\* every BitFunction compile_function has produced so far
Produced ==
  IF Compiling
  THEN {raw_funcs[name] : name \in DOMAIN raw_funcs}
         \cup {module_context.functions[name] : name \in DOMAIN module_context.functions}
  ELSE {}

UsesLocal(instruction) == instruction.op \in {"LoadValue", "StoreValue"}

\* C5: for every BitFunction produced by compile_function, max_locals is at
\* least the highest local index of a LoadValue or StoreValue of its body,
\* whether the body is a block or a single expression, for any number of
\* arguments, captured variables and let-bindings.
C5_MaxLocalsCoversLocals ==
  \A func \in Produced :
     \A i \in 1..Len(func.body) :
        UsesLocal(func.body[i]) => func.max_locals >= func.body[i].local

NoTwoEqual(table) ==
  \A i, j \in 1..Len(table) : i # j => table[i] # table[j]

\* a function ref's identity: package, module and name
RefKey(ref) == << ref.package, ref.module, ref.name >>

TablesUnique(context) ==
  /\ NoTwoEqual(context.string_constants)
  /\ NoTwoEqual(context.shape_refs)
  /\ NoTwoEqual([i \in 1..Len(context.function_refs) |-> RefKey(context.function_refs[i])])

\* what the interning operations are asked for: entries already in and new ones
AskedStrings == {"hi", "yo", "new"}
AskedShapes ==
  {SimpleFunctionShape(<< shape_float >>, shape_float),
   SimpleFunctionShape(<< shape_float >>, shape_string),
   SimpleFunctionShape(<< >>, shape_float)}
AskedNames == {"f", "g", "h", "<anon>", "Core.+", "k"}
CoreOperators == {"+", "-", "*", "/"}

\* the constant ids of a compiled body point into the tables
IdsInRange(context, body) ==
  \A i \in 1..Len(body) :
     /\ body[i].op = "LoadConstString" => body[i].const_id < Len(context.string_constants)
     /\ body[i].op = "LoadConstFunction" => body[i].const_id < Len(context.function_refs)
     /\ body[i].op \in {"CallStatic", "BuildClosure"} =>
          body[i].func_id < Len(context.function_refs)
     /\ body[i].op = "CallDynamic" => body[i].shape_id < Len(context.shape_refs)

\* C6: after any sequence of interning operations of a compilation the tables
\* string_constants, function_refs (by package, module, name) and shape_refs
\* hold no two equal entries, and add_function_ref, lookup_string_constant,
\* lookup_shape and the lookup of a Core operator each return the index at
\* which their argument is stored and leave the tables without duplicates.
C6_InterningUniqueAndIndexed ==
  Compiling =>
    /\ TablesUnique(module_context)
    /\ \A func \in Produced : IdsInRange(module_context, func.body)
    /\ \A str \in AskedStrings :
         \E r \in {lookup_string_constant(module_context, str)} :
            /\ r.context.string_constants[r.id + 1] = str
            /\ TablesUnique(r.context)
    /\ \A shape \in AskedShapes :
         \E r \in {lookup_shape(module_context, shape)} :
            /\ r.context.shape_refs[r.id + 1] = shape
            /\ TablesUnique(r.context)
    /\ \A name \in AskedNames, shape \in AskedShapes :
         \E r \in {add_function_ref(module_context, name, shape)} :
            /\ RefKey(r.context.function_refs[r.id + 1]) = << Package, Module, name >>
            /\ TablesUnique(r.context)
    /\ \A op \in CoreOperators :
         \E r \in {lookup(module_context, "Core." \o op)} :
            /\ r.ok /\ r.kind = "Static"
            /\ r.context.function_refs[r.id + 1].name = "Core." \o op
            /\ TablesUnique(r.context)

\* how often an instruction occurs in a body
Occurrences(body, instruction) == Cardinality({i \in 1..Len(body) : body[i] = instruction})

\* a compiled module in which a lambda and f asked for the same string, f asked
\* for the same shape twice, and a second string and a second shape were interned
C6_Witness ==
  /\ stage = "compiled"
  /\ Len(module_context.string_constants) = 2
  /\ Len(module_context.shape_refs) = 2
  /\ "Core.+" \in DOMAIN module_context.function_ref_map
  /\ Occurrences(raw_funcs["f"].body, LoadConstString(0)) = 1
  /\ Occurrences(module_context.functions["<anon>"].body, LoadConstString(0)) = 1
  /\ Occurrences(raw_funcs["f"].body, CallDynamicShape(1)) = 2

(***************************************************************************)
(* runtime.rs: ListValue.  lib_core.rs: list_module.                       *)
(* A Value::List holds an Rc<ListValue>: the heap is the sequence of the   *)
(* ListValues allocated so far and a list value is the address of one.     *)
(***************************************************************************)
\* how many ListValues a run allocates at most
MaxLists == 4
\* the largest float handed to List.append
MaxElem == 1

List(addr) == [t |-> "List", addr |-> addr]
ListValue(contents, shape) == [contents |-> contents, shape |-> shape]
ListValue_new(shape) == ListValue(<< >>, shape)
copy_contents(list) == list.contents

\* Rc::new: the list value of a new allocation, and the heap with it
NativeOk(value, after) == [ok |-> TRUE, value |-> value, heap |-> after]
NativeErr(msg, after) == [ok |-> FALSE, msg |-> msg, heap |-> after]
RcNew(before, list) == NativeOk(List(Len(before) + 1), Append(before, list))

\* exact: the argument count is checked before the native closure runs
ExactErr(before) == NativeErr("takes exactly two float arguments", before)

\* Machine::execute_handle of a mapper; handles that end in a native
\* function run here, bytecode functions are not among the callbacks used
CallHandle(value, args) ==
  Bind(execute_handle(value.h, args), LAMBDA reached :
    IF reached.native /\ NativeApply(reached.func, reached.args).ok
    THEN [ok |-> TRUE, value |-> NativeApply(reached.func, reached.args).value]
    ELSE [ok |-> FALSE, msg |-> "takes exactly two float arguments"])

list_new(before, args) ==
  IF Len(args) # 0 THEN ExactErr(before)
  ELSE RcNew(before, ListValue_new(shape_float))

\* mutant: the push goes into the argument's own contents, no copy is made
list_append_InPlace(before, args) ==
  IF Len(args) = 2 /\ args[1].t = "List" /\ args[2].t = "Float"
  THEN NativeOk(args[1],
         [before EXCEPT ![args[1].addr].contents = Append(@, Float(args[2].v))])
  ELSE ExactErr(before)

list_append(before, args) ==
  IF Len(args) # 2 THEN ExactErr(before)
  ELSE IF args[1].t # "List"
  THEN NativeErr("List.append first argument must be a list", before)
  ELSE IF args[2].t # "Float"
  THEN NativeErr("List.append second argument must be a float", before)
  ELSE RcNew(before,
         ListValue(Append(copy_contents(before[args[1].addr]), Float(args[2].v)),
                   before[args[1].addr].shape))

\* for next in 0..list.contents.len() { result.push(execute_handle(mapper, [item])?) }
RECURSIVE map_items(_, _, _, _)
map_items(contents, mapper, next, mapped) ==
  IF next > Len(contents) THEN [ok |-> TRUE, value |-> mapped]
  ELSE Bind(CallHandle(mapper, << contents[next] >>), LAMBDA r :
         IF ~r.ok THEN r
         ELSE map_items(contents, mapper, next + 1, Append(mapped, r.value)))

list_map(before, args) ==
  IF Len(args) # 2 THEN ExactErr(before)
  ELSE IF args[1].t # "List"
  THEN NativeErr("List.map first argument must be a list", before)
  ELSE IF args[2].t # "Function"
  THEN NativeErr("List.map second argument must be a function", before)
  ELSE Bind(map_items(before[args[1].addr].contents, args[2], 1, << >>), LAMBDA r :
         IF ~r.ok THEN NativeErr(r.msg, before)
         ELSE RcNew(before, ListValue(r.value, before[args[1].addr].shape)))

\* mutant: the element handed to the callback first, the accumulator second
RECURSIVE fold_items_ItemFirst(_, _, _, _, _)
fold_items_ItemFirst(contents, mapper, next, acc, calls) ==
  IF next > Len(contents) THEN [ok |-> TRUE, value |-> Float(acc), calls |-> calls]
  ELSE Bind(CallHandle(mapper, << contents[next], Float(acc) >>), LAMBDA r :
         IF ~r.ok THEN [ok |-> FALSE, msg |-> r.msg, calls |-> Append(calls, next)]
         ELSE IF r.value.t # "Float"
         THEN [ok |-> FALSE, msg |-> "List.fold callback must return a float",
               calls |-> Append(calls, next)]
         ELSE fold_items_ItemFirst(contents, mapper, next + 1, r.value.v,
                                   Append(calls, next)))

\* for item in &list.contents { result = execute_handle(mapper, [result, item])? };
\* calls lists the positions of the elements the callback was called on, in order
RECURSIVE fold_items(_, _, _, _, _)
fold_items(contents, mapper, next, acc, calls) ==
  IF next > Len(contents) THEN [ok |-> TRUE, value |-> Float(acc), calls |-> calls]
  ELSE Bind(CallHandle(mapper, << Float(acc), contents[next] >>), LAMBDA r :
         IF ~r.ok THEN [ok |-> FALSE, msg |-> r.msg, calls |-> Append(calls, next)]
         ELSE IF r.value.t # "Float"
         THEN [ok |-> FALSE, msg |-> "List.fold callback must return a float",
               calls |-> Append(calls, next)]
         ELSE fold_items(contents, mapper, next + 1, r.value.v, Append(calls, next)))

list_fold(before, args) ==
  IF Len(args) # 3 THEN ExactErr(before) @@ [calls |-> << >>]
  ELSE IF args[1].t # "List"
  THEN NativeErr("List.fold first argument must be a list", before) @@ [calls |-> << >>]
  ELSE IF args[2].t # "Float"
  THEN NativeErr("List.fold second argument must be a float", before) @@ [calls |-> << >>]
  ELSE IF args[3].t # "Function"
  THEN NativeErr("List.fold third argument must be a function", before) @@ [calls |-> << >>]
  ELSE Bind(fold_items(before[args[1].addr].contents, args[3], 1, args[2].v, << >>),
            LAMBDA r :
         IF ~r.ok THEN NativeErr(r.msg, before) @@ [calls |-> r.calls]
         ELSE NativeOk(r.value, before) @@ [calls |-> r.calls])

(***************************************************************************)
(* A run that calls List.new, List.append and List.map in any order, on    *)
(* any list value it has obtained so far.                                  *)
(***************************************************************************)
\* the list values the run holds, and something that is not a list
ListArgs == {List(addr) : addr \in 1..Len(heap)} \cup {Null}
FloatArgs == {Float(n) : n \in 0..MaxElem} \cup {Null}
\* x => 1 + x, x => 0 == x (not a float), and + itself, which wants two arguments
Mappers ==
  {Function(ClosureFunction(NativeHandle("+"), << Float(1) >>)),
   Function(ClosureFunction(NativeHandle("=="), << Float(0) >>)),
   Function(NativeHandle("+"))}
\* { a, b => a + b }, { a, b => a - b }, { a, b => a == b } (not a float), and
\* x => 1 + x, which wants one argument
Reducers ==
  {Function(NativeHandle("+")), Function(NativeHandle("-")), Function(NativeHandle("==")),
   Function(ClosureFunction(NativeHandle("+"), << Float(1) >>))}
PipeIdle ==
  stage = "idle" /\ source = << >> /\ checked = << >> /\ lowered = << >>
    /\ optimized = << >>

InitList ==
  /\ heap = << >>
  /\ native_call = [fn |-> "none"]
  /\ VMIdle
  /\ PipeIdle
  /\ CompilerIdle
  /\ ScopeIdle
  /\ FillIdle

\* what a native call leaves behind: the heap, and the call with its result
Returned(fn, args, r) ==
  /\ heap' = r.heap
  /\ native_call' = [fn |-> fn, args |-> args, ok |-> r.ok,
                     value |-> IF r.ok THEN r.value ELSE Null]
  /\ UNCHANGED notList

ListNew ==
  /\ Len(heap) < MaxLists
  /\ \E r \in {list_new(heap, << >>)} : Returned("new", << >>, r)

ListAppend ==
  /\ Len(heap) < MaxLists
  /\ \E xs \in ListArgs, v \in FloatArgs :
       \E r \in {list_append(heap, << xs, v >>)} : Returned("append", << xs, v >>, r)

ListMap ==
  /\ Len(heap) < MaxLists
  /\ \E xs \in ListArgs, mapper \in Mappers \cup {Null} :
       \E r \in {list_map(heap, << xs, mapper >>)} : Returned("map", << xs, mapper >>, r)

\* List.fold on a list the run holds; it allocates nothing: the heap stays as it is
ListFold ==
  \E xs \in ListArgs, init \in FloatArgs, reducer \in Reducers \cup {Null} :
    \E r \in {list_fold(heap, << xs, init, reducer >>)} :
      /\ heap' = r.heap
      /\ native_call' = [fn |-> "fold", args |-> << xs, init, reducer >>, ok |-> r.ok,
                         value |-> IF r.ok THEN r.value ELSE Null, calls |-> r.calls]
      /\ UNCHANGED notList

NextList == ListNew \/ ListAppend \/ ListMap

SpecList == InitList /\ [][NextList]_vars

\* the longest list List.fold is called on
MaxFold == 3

\* the contents appends can have given a list
RECURSIVE ContentsTo(_)
ContentsTo(n) ==
  IF n = 0 THEN {<< >>}
  ELSE ContentsTo(n - 1)
         \cup {Append(c, Float(v)) : c \in {d \in ContentsTo(n - 1) : Len(d) = n - 1},
                                     v \in 0..MaxElem}

\* a run that holds one list and calls List.fold
InitFold ==
  /\ heap \in {<< ListValue(c, shape_float) >> : c \in ContentsTo(MaxFold)}
  /\ native_call = [fn |-> "none"]
  /\ VMIdle
  /\ PipeIdle
  /\ CompilerIdle
  /\ ScopeIdle
  /\ FillIdle

NextFold == ListFold

SpecFold == InitFold /\ [][NextFold]_vars

(***************************************************************************)
(* Lists are values (C8)                                                   *)
(***************************************************************************)
\* every list value obtained before the step has, after it, the contents it had
EarlierListsUnchanged ==
  \A addr \in 1..Len(heap) : Len(heap') >= addr /\ heap'[addr] = heap[addr]

\* the step was a successful List.append(xs, v): its result is a list that was
\* not there before, with the contents xs had before followed by v
AppendReturnsNewList ==
  (native_call'.fn = "append" /\ native_call'.ok) =>
     /\ native_call'.value.t = "List"
     /\ native_call'.value.addr \notin 1..Len(heap)
     /\ native_call'.value.addr \in 1..Len(heap')
     /\ heap'[native_call'.value.addr].contents =
          Append(heap[native_call'.args[1].addr].contents, native_call'.args[2])

\* C8: List.append(xs, v) returns a new list whose contents are the contents of
\* xs followed by v and leaves xs unchanged: after any sequence of List.new,
\* append and map calls every list value obtained earlier still has exactly the
\* contents it had when it was obtained.
C8_AppendLeavesListsUnchanged ==
  [][EarlierListsUnchanged /\ AppendReturnsNewList]_vars

\* a list made by an append was mapped and then appended to: the list, the mapped
\* list and the appended list are three allocations, each with its own contents
C8_Witness ==
  /\ native_call.fn = "append" /\ native_call.ok
  /\ \E xs, ms, ys \in 1..Len(heap) :
       /\ xs < ms /\ ms < ys
       /\ native_call.args[1] = List(xs)
       /\ native_call.value = List(ys)
       /\ Len(heap[xs].contents) = 1
       /\ heap[ms].contents = << Float(heap[xs].contents[1].v + 1) >>
       /\ heap[ys].contents = Append(heap[xs].contents, native_call.args[2])

(***************************************************************************)
(* The shapes of a checked module (C11)                                    *)
(***************************************************************************)
\* a shape with no Unknown and no Named shape in it, at any depth
RECURSIVE Filled(_)
Filled(shape) ==
  CASE shape.s = "Base" -> TRUE
    [] shape.s = "Fn" ->
         Filled(shape.result) /\ \A i \in 1..Len(shape.args) : Filled(shape.args[i])
    [] shape.s = "Generic" ->
         Filled(shape.base) /\ \A i \in 1..Len(shape.args) : Filled(shape.args[i])
    [] OTHER -> FALSE

\* every shape of an expression and of the expressions in it is filled
RECURSIVE AllFilled(_)
AllFilled(ex) ==
  CASE ex.e = "Fun" ->
         /\ Filled(ex.result)
         /\ \A i \in 1..Len(ex.args) : Filled(ex.args[i].shape)
         /\ \A i \in 1..Len(ex.context.closures) : Filled(ex.context.closures[i].shape)
         /\ AllFilled(ex.body)
    [] ex.e = "Assign" -> Filled(ex.shape) /\ AllFilled(ex.body)
    [] ex.e = "Var" -> Filled(ex.shape)
    [] ex.e = "BinOp" -> Filled(ex.shape) /\ AllFilled(ex.left) /\ AllFilled(ex.right)
    [] ex.e = "Call" ->
         /\ Filled(ex.shape)
         /\ AllFilled(ex.func)
         /\ \A i \in 1..Len(ex.args) : AllFilled(ex.args[i])
    [] ex.e = "If" ->
         /\ Filled(ex.shape)
         /\ AllFilled(ex.condition)
         /\ AllFilled(ex.then_block)
         /\ AllFilled(ex.else_block)
    [] ex.e = "Block" -> Filled(ex.shape) /\ \A i \in 1..Len(ex.body) : AllFilled(ex.body[i])
    [] OTHER -> Filled(ShapeOf(ex))

\* C11: whenever check_module succeeds, the shape of every expression of the
\* returned module and every parameter and result shape of every function in
\* it contains no Unknown and no Named shape at any depth.
C11_CheckedShapesFilled ==
  \A i \in 1..Len(checked) : AllFilled(checked[i])

\* a checked module whose source declared its parameters by name (Float) and bound
\* a lambda without a result type with a let without a type
C11_Witness ==
  /\ stage = "checked"
  /\ \E i \in 1..Len(source) :
       /\ source[i].args[1].shape.s = "Named"
       /\ source[i].body.e = "Block"
       /\ \E k \in 1..Len(source[i].body.body) :
            /\ source[i].body.body[k].e = "Assign"
            /\ source[i].body.body[k].shape.s = "Unknown"
            /\ source[i].body.body[k].body.e = "Fun"
            /\ source[i].body.body[k].body.result.s = "Unknown"
            /\ checked[i].body.body[k].shape.s = "Fn"
            /\ checked[i].body.body[k].body.result.s = "Base"

(***************************************************************************)
(* typechecker.rs: the Scope as the checker drives it.  check_module opens *)
(* the module's function scope; FunctionDeclarationEx::check opens and     *)
(* closes a function scope around a body, BlockEx::check a block scope     *)
(* around its statements; parameters, lets and local functions are bound   *)
(* with set_scope and every variable is resolved with check_scope.         *)
(***************************************************************************)
\* how many block scopes the stack holds at most, over all function scopes
MaxScopes == 3
\* how many captures the closures lists hold at most, over all function scopes
MaxCaptures == 1

RECURSIVE SumLen(_)
SumLen(seqs) == IF seqs = << >> THEN 0 ELSE Len(seqs[1]) + SumLen(Tail(seqs))

\* the identifiers bound and looked up, the shapes they are bound to, the places
ScopeIds == {"x"}
LookedUp == {"x", "g", "z"}
ScopeShapes == {shape_float, shape_string}
Locations == {Location("Basic.let", 1, 1), Location("Basic.let", 2, 1)}

\* check_module before the first declaration is checked: fun g(n: Float): Float
InitScope ==
  /\ the_scope = pre_fill_module_function(create_function_scope(ScopeNew), "g",
                                      SimpleFunctionShape(<< Float_t >>, Float_t)).scope
  /\ scope_result = [op |-> "none"]
  /\ VMIdle
  /\ PipeIdle
  /\ CompilerIdle
  /\ ListIdle
  /\ FillIdle

SetScope ==
  \E id \in ScopeIds, shape \in ScopeShapes, loc \in Locations :
    \E r \in {set_scope(the_scope, id, shape, loc)} :
      /\ the_scope' = IF r.ok THEN r.scope ELSE the_scope
      /\ scope_result' = [op |-> "set_scope", id |-> id, shape |-> shape, loc |-> loc,
                          r |-> IF r.ok THEN [ok |-> TRUE] ELSE r]
      /\ UNCHANGED notScope

CheckScope ==
  \E id \in LookedUp :
    \E r \in {check_scope(the_scope, id)} :
      /\ r.ok => SumLen(r.scope.closures) <= MaxCaptures
      /\ the_scope' = IF r.ok THEN r.scope ELSE the_scope
      /\ scope_result' = [op |-> "check_scope", id |-> id,
                          r |-> IF r.ok THEN [ok |-> TRUE, shape |-> r.shape] ELSE r]
      /\ UNCHANGED notScope

CreateBlockScope ==
  /\ SumLen(the_scope.block_stack) < MaxScopes
  /\ the_scope' = create_block_scope(the_scope)
  /\ scope_result' = [op |-> "create_block_scope"]
  /\ UNCHANGED notScope

\* BlockEx::check closes the block scope it opened
DestroyBlockScope ==
  /\ Len(Last(the_scope.block_stack)) > 1
  /\ the_scope' = destroy_block_scope(the_scope)
  /\ scope_result' = [op |-> "destroy_block_scope"]
  /\ UNCHANGED notScope

CreateFunctionScope ==
  /\ SumLen(the_scope.block_stack) < MaxScopes
  /\ the_scope' = create_function_scope(the_scope)
  /\ scope_result' = [op |-> "create_function_scope"]
  /\ UNCHANGED notScope

\* FunctionDeclarationEx::check closes the function scope it opened, after the body's
\* blocks are closed; the module's own function scope stays
DestroyFunctionScope ==
  /\ Len(the_scope.block_stack) > 1
  /\ Len(Last(the_scope.block_stack)) = 1
  /\ \E r \in {destroy_function_scope(the_scope)} :
       /\ the_scope' = r.scope
       /\ scope_result' = [op |-> "destroy_function_scope", closures |-> r.closures]
  /\ UNCHANGED notScope

NextScope ==
  \/ SetScope
  \/ CheckScope
  \/ CreateBlockScope
  \/ DestroyBlockScope
  \/ CreateFunctionScope
  \/ DestroyFunctionScope

SpecScope == InitScope /\ [][NextScope]_vars

(***************************************************************************)
(* Redeclaration (C12)                                                     *)
(***************************************************************************)
\* fun main(): Float = { let x = 1; let x = 2; x }
TwoLets ==
  << FunctionDeclarationEx("main", << >>, Float_t,
       Block(<< Located(Let("x", Num(1)), Location("Basic.let", 1, 25)),
                Located(Let("x", Num(2)), Location("Basic.let", 1, 36)),
                Var("x") >>),
       FunctionContext(FALSE, FALSE)) >>
\* fun main(): Float = { let x = 1; { let x = 2; x } }
NestedLets ==
  << FunctionDeclarationEx("main", << >>, Float_t,
       Block(<< Located(Let("x", Num(1)), Location("Basic.let", 1, 25)),
                Block(<< Located(Let("x", Num(2)), Location("Basic.let", 1, 38)),
                         Var("x") >>) >>),
       FunctionContext(FALSE, FALSE)) >>

\* the innermost block scope
InnermostBlock(s) == Last(Last(s.block_stack))

\* what a call of set_scope has to do to the scope and return
SetScopeContract ==
  scope_result'.op = "set_scope" =>
    LET c == scope_result'
        fi == Len(the_scope.block_stack)
        bi == Len(the_scope.block_stack[fi])
    IN IF c.id \in DOMAIN InnermostBlock(the_scope)
       THEN /\ c.r = [ok |-> FALSE, msg |-> "Redeclaration of variable",
                      id |-> c.id, loc |-> c.loc]
            /\ the_scope' = the_scope
       ELSE /\ c.r.ok
            /\ the_scope' = [the_scope EXCEPT !.block_stack[fi][bi] =
                                                MapPut(@, c.id, c.shape)]

\* C12: set_scope rejects an identifier already bound in the innermost block scope
\* with a redeclaration error that carries the identifier and the source location, and
\* leaves the scope as it was; an identifier not bound in the innermost block scope,
\* bound in an outer one or not, is bound there and nothing else changes.  So the
\* checker rejects a block with two lets of one name, at the place of the second, and
\* accepts the second let in a nested block.
C12_RedeclarationRejected ==
  [][/\ SetScopeContract
     /\ check_module(TwoLets) = [ok |-> FALSE, msg |-> "Redeclaration of variable",
                                 id |-> "x", loc |-> Location("Basic.let", 1, 36)]
     /\ check_module(NestedLets).ok]_vars

\* x is bound in a block and in the block nested in it, and binding it once more in
\* the nested block was rejected
C12_Witness ==
  /\ scope_result.op = "set_scope"
  /\ ~scope_result.r.ok
  /\ scope_result.r.loc = Location("Basic.let", 2, 1)
  /\ LET blocks == Last(the_scope.block_stack)
     IN /\ Len(blocks) >= 2
        /\ "x" \in DOMAIN blocks[Len(blocks)]
        /\ "x" \in DOMAIN blocks[Len(blocks) - 1]

(***************************************************************************)
(* Resolution of a rebound identifier (C19)                                *)
(***************************************************************************)
\* the innermost block scope of the innermost function scope that binds id
InnermostBinding(s, id) ==
  LET blocks == Last(s.block_stack)
      bi == CHOOSE b \in 1..Len(blocks) :
              /\ id \in DOMAIN blocks[b]
              /\ \A c \in (b + 1)..Len(blocks) : id \notin DOMAIN blocks[c]
  IN blocks[bi][id]

\* C19: an identifier bound in one or more block scopes of the innermost function
\* scope is resolved by check_scope to the binding of the innermost of them.
C19_InnermostBlockWins ==
  [][(/\ scope_result'.op = "check_scope"
      /\ \E b \in 1..Len(Last(the_scope.block_stack)) :
           scope_result'.id \in DOMAIN Last(the_scope.block_stack)[b])
     => /\ scope_result'.r.ok
        /\ scope_result'.r.shape = InnermostBinding(the_scope, scope_result'.id)]_vars

(***************************************************************************)
(* Runtime faults (C13)                                                    *)
(***************************************************************************)
\* C13: execute never aborts, and a run of a body with a runtime fault (operand-stack
\* underflow, a local index at or beyond max_locals, a call as the last instruction,
\* a jump to before the start, a Branch on a non-Boolean, the end of the body reached,
\* the Error instruction) ends with Err returned to the caller.
C13_EveryFaultIsErr ==
  /\ result.t # "Panic"
  /\ (input.entry \in FaultEntries /\ frames = << >>) => result.t = "Err"

(***************************************************************************)
(* The locals of a recursive closure (C14)                                 *)
(***************************************************************************)
\* a call that gets as far as running its callee, a Recursive handle around a
\* Closure around a BitFunction
RecursiveClosureCall ==
  /\ PendingCall.err = ""
  /\ Top.index + 1 < Len(Func.body)
  /\ PendingCall.call_func.k = "Recursive"
  /\ PendingCall.call_func.func.k = "Closure"
  /\ PendingCall.call_func.func.func.k = "Bit"

\* the step started the callee, in place or nested, with these locals
StartedWith(locals) ==
  LET h == PendingCall.call_func
  IN frames'[Len(frames')] = Activation(h.func.func.name, locals)

\* C14 as stated: the function under a Recursive handle around a Closure runs with
\* locals [self_handle, captured..., args...].
C14_SelfThenCaptured ==
  [][RecursiveClosureCall =>
       LET h == PendingCall.call_func
       IN StartedWith(<< Function(h) >> \o h.func.closures \o PendingCall.params)]_vars

\* C14 amended: it runs with locals [captured..., self_handle, args...]: the captured
\* values in capture order from slot 0, then the re-wrapped recursive handle, then the
\* call arguments in order.
C14_CapturedThenSelf ==
  [][RecursiveClosureCall =>
       LET h == PendingCall.call_func
       IN StartedWith(h.func.closures \o << Function(RecursiveFunction(h.func)) >>
                        \o PendingCall.params)]_vars

\* cloop, started by main_recclosure through the recursive handle of its closure
C14_Witness ==
  /\ input.entry = "main_recclosure"
  /\ Len(frames) = 2
  /\ Top.func = "cloop" /\ Top.index = 0
  /\ Top.locals = << Float(7),
                     Function(RecursiveFunction(
                       ClosureFunction(BitHandle("cloop"), << Float(7) >>))),
                     Float(input.n) >>

(***************************************************************************)
(* The order of call arguments (C15)                                       *)
(***************************************************************************)
\* fun h(a: Float, b: Float): Float = a - b
\* fun k(f: {Float, Float -> Float}): Float = { let u = h(1, 2); f(u, 3) }
TwoArgumentCalls ==
  << FunctionDeclarationEx("h", << Parameter("a", Float_t), Parameter("b", Float_t) >>,
       Float_t, Bin("-", Var("a"), Var("b")), FunctionContext(FALSE, FALSE)),
     FunctionDeclarationEx("k",
       << Parameter("f", SimpleFunctionShape(<< Float_t, Float_t >>, Float_t)) >>,
       Float_t,
       Block(<< Let("u", Call("h", << Num(1), Num(2) >>)),
                Call("f", << Var("u"), Num(3) >>) >>),
       FunctionContext(FALSE, FALSE)) >>

\* lowering emits the callee of a dynamic call, then the arguments in source order
LoweredInSourceOrder ==
  LET ir == compile_ir_module(check_module(TwoArgumentCalls).functions).functions
  IN /\ ir["h"].body =
          << IrLoadValue("a"), IrLoadValue("b"),
             IrCallStatic(FunctionRef("Core", "Core", "-")), IrReturn >>
     /\ ir["k"].body =
          << IrLoadValue("h"), IrLoadConstFloat(1), IrLoadConstFloat(2), IrCallDynamic(2),
             IrStoreValue("u"),
             IrLoadValue("f"), IrLoadValue("u"), IrLoadConstFloat(3), IrCallDynamic(2),
             IrReturn >>

\* the i-th of the n values pushed last, in the order they were pushed
Pushed(n, i) == Top.stack[Len(Top.stack) - n + i]

\* a call that gets as far as running its callee
CallRuns == PendingCall.err = "" /\ Top.index + 1 < Len(Func.body)

\* the callee of the call that runs gets the pushed values in the order of the pushes
ReceivedInOrder ==
  LET n == Len(PendingCall.params)
      pushed == [i \in 1..n |-> Pushed(n, i)]
      run == execute_handle(PendingCall.call_func, PendingCall.params)
  IN /\ PendingCall.params = pushed
     /\ At("CallDynamic") => Top.stack[Len(Top.stack) - n] = Function(PendingCall.call_func)
     /\ IF run.native
        THEN LET r == NativeApply(run.func, Front(run.args, n) \o pushed)
             IN IF r.ok
                THEN /\ Len(frames') = Len(frames)
                     /\ frames'[Len(frames)].stack =
                          Append(Front(Top.stack, n + IF At("CallDynamic") THEN 1 ELSE 0),
                                 r.value)
                ELSE result'.t = "Err"
        ELSE /\ Back(run.args, n) = pushed
             /\ frames'[Len(frames')].func = run.func
             /\ frames'[Len(frames')].locals =
                  Resize(Front(run.args, n) \o pushed, functions[run.func].max_locals)

\* C15: the arguments of a call are lowered in source order, after the callee of a
\* dynamic call, and the callee receives them in that order: params[i] of CallStatic
\* and of CallDynamic is the i-th of the n values pushed last, the callee of
\* CallDynamic is the value pushed before them, and the function that runs gets the
\* params in that order after its captured values and self handle.
C15_ArgumentsInSourceOrder ==
  [][LoweredInSourceOrder /\ (CallRuns => ReceivedInOrder)]_vars

\* hloop(f, n - 1) has been called through f: the handle and the number are the two
\* locals, in this order
C15_Witness ==
  /\ input.entry = "main_plain" /\ input.n = 2
  /\ Top.func = "hloop" /\ Top.index = 0
  /\ Top.locals = << Function(BitHandle("hloop")), Float(1) >>

(***************************************************************************)
(* optimize/: the passes one at a time.  Optimizer::optimize runs          *)
(* lift_return_opt, free_local_opt and load_store_opt in this order on     *)
(* every function; here optimized holds the bodies after each pass.        *)
(***************************************************************************)
\* one pass over every function of the module; a panic in any ends the run
Pass(pass(_), to) ==
  /\ \E rs \in {[name \in DOMAIN CurrentBodies |-> pass(CurrentBodies[name])]} :
       IF \A name \in DOMAIN rs : rs[name].ok
       THEN /\ stage' = to
            /\ optimized' = Append(optimized, [name \in DOMAIN rs |-> rs[name].body])
       ELSE stage' = "panicked" /\ UNCHANGED optimized
  /\ UNCHANGED <<source, checked, lowered, notPipe>>

LiftReturnPass ==
  /\ stage = "lowered"
  /\ Pass(lift_return_opt, "lifted")

FreeLocalPass ==
  /\ stage = "lifted"
  /\ Pass(free_local_opt, "freed")

LoadStorePass ==
  /\ stage = "freed"
  /\ Pass(load_store_opt, "folded")

NextPasses ==
  \/ CheckModule
  \/ CompileIr
  \/ LiftReturnPass
  \/ FreeLocalPass
  \/ LoadStorePass

SpecPasses == InitPipe /\ [][NextPasses]_vars

\* the bodies after lift-return, after free-local and after load-store fold
Lifted == optimized[1]
Freed == optimized[2]
Folded == optimized[3]

\* the control paths through a body: at a Branch either arm is taken, a Return ends
\* the path
RECURSIVE Paths(_)
Paths(body) ==
  IF body = << >> THEN {<< >>}
  ELSE IF Head(body).op = "Return" THEN {<< Head(body) >>}
  ELSE IF Head(body).op = "Branch"
  THEN LET arms == Paths(Head(body).then_block) \cup Paths(Head(body).else_block)
           rest == Paths(Tail(body))
       IN {a \in arms : a # << >> /\ a[Len(a)].op = "Return"}
            \cup {a \o r : a \in {b \in arms : b = << >> \/ b[Len(b)].op # "Return"},
                           r \in rest}
  ELSE LET rest == Paths(Tail(body))
       IN {<< Head(body) >> \o r : r \in rest}

(***************************************************************************)
(* FreeLocal marks the last use (C16)                                      *)
(***************************************************************************)
\* on the path a local is loaded after it was freed, with no store in between
LoadAfterFree(path) ==
  \E i, j \in 1..Len(path) :
    /\ i < j
    /\ path[i].op = "FreeLocal"
    /\ path[j].op = "LoadValue"
    /\ path[j].local = path[i].local
    /\ \A k \in (i + 1)..(j - 1) :
         ~(path[k].op = "StoreValue" /\ path[k].local = path[i].local)

\* C16: in the bodies the free-local pass leaves, no control path loads a local after
\* the FreeLocal of that local.
C16_NoLoadAfterFree ==
  Len(optimized) >= 2 =>
    \A name \in DOMAIN Freed : \A path \in Paths(Freed[name]) : ~LoadAfterFree(path)

(***************************************************************************)
(* The triple load-store fold deletes (C17)                                *)
(***************************************************************************)
\* every local the path loads is one the function starts with or was stored before
ReadsAreStored(path, args) ==
  \A j \in 1..Len(path) :
    path[j].op = "LoadValue" =>
      \/ \E a \in 1..Len(args) : args[a].id = path[j].local
      \/ \E i \in 1..(j - 1) : path[i].op = "StoreValue" /\ path[i].local = path[j].local

\* C17: load-store fold leaves no local read without being stored: when every load
\* on every control path of a body made by lowering, lift-return and free-local has
\* its store before it, the same is true of the folded body.
C17_DeletedLocalNeverRead ==
  Len(optimized) >= 3 =>
    \A name \in DOMAIN Folded :
      (\A path \in Paths(Freed[name]) : ReadsAreStored(path, lowered[name].args))
        => \A path \in Paths(Folded[name]) : ReadsAreStored(path, lowered[name].args)

(***************************************************************************)
(* Load-store fold inside the arms of a Branch (C18)                       *)
(***************************************************************************)
\* StoreValue(x); LoadValue(x) followed by a third operation, somewhere in the sequence
HasStoreLoadPair(body) ==
  \E i \in 1..(Len(body) - 2) :
    /\ body[i].op = "StoreValue"
    /\ body[i + 1].op = "LoadValue"
    /\ body[i].local = body[i + 1].local

\* no arm of a Branch of the body, at any depth, has such a pair left
RECURSIVE ArmsFolded(_)
ArmsFolded(body) ==
  \A i \in 1..Len(body) :
    body[i].op = "Branch" =>
      /\ ~HasStoreLoadPair(body[i].then_block) /\ ArmsFolded(body[i].then_block)
      /\ ~HasStoreLoadPair(body[i].else_block) /\ ArmsFolded(body[i].else_block)

\* C18: after load-store fold no arm of any Branch of a body, at any depth, the tail
\* Branch included, holds a StoreValue(x); LoadValue(x) pair followed by a third
\* operation.
C18_FoldedInsideEveryArm ==
  Len(optimized) >= 3 => \A name \in DOMAIN Folded : ArmsFolded(Folded[name])

(***************************************************************************)
(* The locals of a function value (C20)                                    *)
(***************************************************************************)
\* the local or function an operation loads
LoadedName(ir) ==
  IF ir.op = "LoadValue" THEN ir.local
  ELSE IF ir.op = "LoadConstFunction" THEN ir.value.name
  ELSE ""

\* the function values a sequence builds: the function, the names of the values
\* BuildClosure pops in the order they were pushed, whether BuildRecursiveFunction
\* follows
ValuesBuiltHere(body) ==
  {[name |-> body[i].func.name,
    captured |-> [k \in 1..body[i].param_count |->
                    LoadedName(body[i - body[i].param_count + k - 1])],
    recursive |-> i < Len(body) /\ body[i + 1].op = "BuildRecursiveFunction"] :
     i \in {j \in 1..Len(body) : body[j].op = "BuildClosure"}}
  \cup
  {[name |-> body[i].value.name, captured |-> << >>,
    recursive |-> i < Len(body) /\ body[i + 1].op = "BuildRecursiveFunction"] :
     i \in {j \in 1..Len(body) :
              /\ body[j].op = "LoadConstFunction"
              /\ body[j].value.package = Package}}

RECURSIVE ValuesBuilt(_)
ValuesBuilt(body) ==
  ValuesBuiltHere(body)
    \cup UNION {ValuesBuilt(body[i].then_block) \cup ValuesBuilt(body[i].else_block) :
                  i \in {j \in 1..Len(body) : body[j].op = "Branch"}}

\* the names of the locals the runtime passes when the value is called: the captured
\* values, the self handle of a recursive handle, the call's arguments
PassedLocals(v, params) ==
  v.captured \o (IF v.recursive THEN << v.name >> ELSE << >>) \o params

\* the names lowering declares for the function before its body, in order
DeclaredLocals(func) == [i \in 1..Len(func.args) |-> func.args[i].id]

\* the parameters of the function: the locals declared last
DeclaredParams(func) ==
  SubSeq(DeclaredLocals(func), Len(func.args) - Len(func.shape.args) + 1, Len(func.args))

\* C20: every function value a lowered body builds (LoadConstFunction of a function
\* of the module, BuildClosure, either followed by BuildRecursiveFunction) is called
\* with the locals its function declares: captured values, self if recursive,
\* arguments, name by name.
C20_LocalsMatchDeclaration ==
  \A f \in DOMAIN lowered : \A v \in ValuesBuilt(lowered[f].body) :
    v.name \in DOMAIN lowered =>
      PassedLocals(v, DeclaredParams(lowered[v.name])) = DeclaredLocals(lowered[v.name])

(***************************************************************************)
(* A flattened Branch runs as the nested one (C21)                         *)
(***************************************************************************)
\* the nested body run as a tree, the Branch choosing one of its two sequences:
\* the operand stack it ends with and whether it ended in Return
RECURSIVE RunTree(_, _, _)
RunTree(body, n, stack) ==
  IF body = << >> THEN [stack |-> stack, returned |-> FALSE]
  ELSE LET ir == body[1]
           rest == Tail(body)
       IN CASE ir.op = "Return" -> [stack |-> stack, returned |-> TRUE]
            [] ir.op = "Branch" ->
                 LET arm == RunTree(IF stack[Len(stack)] = True THEN ir.then_block
                                    ELSE ir.else_block, n, Front(stack, 1))
                 IN IF arm.returned THEN arm ELSE RunTree(rest, n, arm.stack)
            [] ir.op = "LoadValue" -> RunTree(rest, n, Append(stack, Float(n)))
            [] ir.op = "LoadConstFloat" -> RunTree(rest, n, Append(stack, Float(ir.value)))
            [] ir.op = "CallStatic" ->
                 RunTree(rest, n,
                         Append(Front(stack, 2),
                                NativeApply(function_ref_names[ir.func_id + 1],
                                            Back(stack, 2)).value))

\* the values the arms push, which stay on the stack to the end
Marks(stack) == SelectSeq(stack, LAMBDA v : v.t = "Float" /\ v.v >= 10)
IsPrefix(s, t) == Len(s) <= Len(t) /\ s = SubSeq(t, 1, Len(s))
Expected == RunTree(BranchIr[input.entry], input.n, << >>).stack

\* the run of a flattened body never has on its stack anything the chosen arms do
\* not push, reaches Return with all they push, and returns their last value
RunsChosenArms ==
  input.entry \in BranchEntries =>
    /\ result.t \in {"Running", "Ok"}
    /\ result.t = "Ok" => result.value = Expected[Len(Expected)]
    /\ Running =>
         /\ Len(frames) = 1
         /\ IsPrefix(Marks(Top.stack), Expected)
         /\ At("Return") => Top.stack = Expected

\* a Jump, and a Branch that pops False, at index i with offset k go on at i + k + 1
TargetIsAfterOffset ==
  (input.entry \in BranchEntries /\ Running /\ InBody
     /\ (Instr.op = "Jump" \/ (Instr.op = "Branch" /\ Top.stack[Len(Top.stack)] = False)))
    => (frames' # << >> /\ frames'[1].index = Top.index + Instr.jump + 1)

MaxShapeDepth == 2

TypeNames == {"Float", "String", "Unit", "Boolean", "Foo"}
FlatShapes ==
  {NamedShape(n) : n \in TypeNames}
    \cup {shape_float, shape_boolean, BaseShape("List"), shape_unknown}

\* function shapes of no or one parameter, generic shapes and constructors over the
\* shapes one level down
RECURSIVE ShapesTo(_)
ShapesTo(d) ==
  IF d = 0 THEN FlatShapes
  ELSE LET inner == ShapesTo(d - 1)
       IN FlatShapes
            \cup {SimpleFunctionShape(<< >>, r) : r \in inner}
            \cup {SimpleFunctionShape(<< a >>, r) : a \in inner, r \in {shape_float, NamedShape("Float")}}
            \cup {GenericShape(b, << a >>) : b \in {BaseShape("List"), NamedShape("List")},
                                             a \in inner}
            \cup {GenericShapeConstructor(b, 1) : b \in inner}

InitFill ==
  /\ fill_call \in [op : {"fill_shape"}, shape : ShapesTo(MaxShapeDepth),
                    r : {[ok |-> FALSE, msg |-> "pending"]}]
  /\ VMIdle
  /\ PipeIdle
  /\ CompilerIdle
  /\ ListIdle
  /\ ScopeIdle

FillShape ==
  /\ fill_call.r = [ok |-> FALSE, msg |-> "pending"]
  /\ fill_call' = [fill_call EXCEPT !.r = fill_shape(fill_call.shape)]
  /\ UNCHANGED notFill

NextFill == FillShape

SpecFill == InitFill /\ [][NextFill]_vars

(***************************************************************************)
(* Named shapes are replaced by the built-in shapes (C22)                  *)
(***************************************************************************)
BuiltInNames == {"Float", "String", "Unit", "Boolean"}

\* the names of the Named shapes in a shape, at any depth
RECURSIVE NamesIn(_)
NamesIn(shape) ==
  CASE shape.s = "Named" -> {shape.name}
    [] shape.s = "Fn" ->
         NamesIn(shape.result) \cup UNION {NamesIn(shape.args[i]) : i \in 1..Len(shape.args)}
    [] shape.s = "Generic" ->
         NamesIn(shape.base) \cup UNION {NamesIn(shape.args[i]) : i \in 1..Len(shape.args)}
    [] shape.s = "Constructor" -> NamesIn(shape.base)
    [] OTHER -> {}

\* the shape with every Named shape replaced by the base shape of that name
RECURSIVE Replaced(_)
Replaced(shape) ==
  CASE shape.s = "Named" -> BaseShape(shape.name)
    [] shape.s = "Fn" ->
         SimpleFunctionShape([i \in 1..Len(shape.args) |-> Replaced(shape.args[i])],
                             Replaced(shape.result))
    [] shape.s = "Generic" ->
         GenericShape(Replaced(shape.base),
                      [i \in 1..Len(shape.args) |-> Replaced(shape.args[i])])
    [] shape.s = "Constructor" -> GenericShapeConstructor(Replaced(shape.base), shape.args)
    [] OTHER -> shape

FillReturned == fill_call.op = "fill_shape" /\ fill_call.r # [ok |-> FALSE, msg |-> "pending"]

\* C22: fill_shape replaces every Named shape, at any depth, by the built-in shape it
\* names (Float, String, Unit, Boolean), fails for any other name, and returns a shape
\* without a Named component unchanged.
C22_NamedShapesFilled ==
  FillReturned =>
    /\ fill_call.r.ok <=> NamesIn(fill_call.shape) \subseteq BuiltInNames
    /\ fill_call.r.ok => fill_call.r.shape = Replaced(fill_call.shape)
    /\ NamesIn(fill_call.shape) = {} => fill_call.r = [ok |-> TRUE, shape |-> fill_call.shape]

(***************************************************************************)
(* The operands of a binary operation (C23)                                *)
(***************************************************************************)
\* every binary operation in the expression has two Float operands and the shape of
\* its operator: Float for arithmetic, Boolean for comparison
RECURSIVE FloatOperands(_)
FloatOperands(ex) ==
  CASE ex.e = "Fun" -> FloatOperands(ex.body)
    [] ex.e = "Assign" -> FloatOperands(ex.body)
    [] ex.e = "BinOp" ->
         /\ ShapeOf(ex.left) = shape_float
         /\ ShapeOf(ex.right) = shape_float
         /\ ex.op \in FLOAT_OPS => ex.shape = shape_float
         /\ ex.op \in COMPARE_OPS => ex.shape = shape_boolean
         /\ FloatOperands(ex.left)
         /\ FloatOperands(ex.right)
    [] ex.e = "Call" ->
         FloatOperands(ex.func) /\ \A i \in 1..Len(ex.args) : FloatOperands(ex.args[i])
    [] ex.e = "If" ->
         FloatOperands(ex.condition) /\ FloatOperands(ex.then_block)
           /\ FloatOperands(ex.else_block)
    [] ex.e = "Block" -> \A i \in 1..Len(ex.body) : FloatOperands(ex.body[i])
    [] OTHER -> TRUE

\* C23: a binary operation type-checks only when both operands have shape Float, and
\* then has shape Float for + - * / and Boolean for the comparisons; an operation on
\* two operands of another common shape (two string literals) is rejected.
C23_OperandsAreFloat ==
  \A i \in 1..Len(checked) : FloatOperands(checked[i])

(***************************************************************************)
(* Lowering a variable reference (C24)                                     *)
(***************************************************************************)
\* the names a sequence loads with LoadValue, and those it stores, arms included
RECURSIVE LoadedNames(_)
LoadedNames(body) ==
  UNION {IF body[i].op = "LoadValue" THEN {body[i].local}
         ELSE IF body[i].op = "Branch"
         THEN LoadedNames(body[i].then_block) \cup LoadedNames(body[i].else_block)
         ELSE {} : i \in 1..Len(body)}

RECURSIVE StoredNames(_)
StoredNames(body) ==
  UNION {IF body[i].op = "StoreValue" THEN {body[i].local}
         ELSE IF body[i].op = "Branch"
         THEN StoredNames(body[i].then_block) \cup StoredNames(body[i].else_block)
         ELSE {} : i \in 1..Len(body)}

\* the locals of a lowered function: those declared for it and those its body stores
LocalsOf(func) ==
  {func.args[i].id : i \in 1..Len(func.args)} \cup StoredNames(func.body)

\* the functions the module declares
ModuleFunctions == {source[i].id : i \in 1..Len(source)}

\* C24: a variable reference is lowered to LoadValue when it resolves to a local of
\* the current function and to LoadConstFunction when it resolves to a module-level
\* function: no LoadValue names a module function that is not a local of the function
\* that loads it.
C24_StaticFunctionLoadedAsConstant ==
  \A f \in DOMAIN lowered :
    (LoadedNames(lowered[f].body) \cap ModuleFunctions) \subseteq LocalsOf(lowered[f])

(***************************************************************************)
(* List.fold folds from the left (C25)                                     *)
(***************************************************************************)
\* f(...f(f(init, x1), x2)..., xn), taken from the last element inwards; not ok
\* when some application fails or does not give a Float
RECURSIVE FoldLeft(_, _, _)
FoldLeft(f, init, xs) ==
  IF xs = << >> THEN [ok |-> TRUE, value |-> init]
  ELSE LET inner == FoldLeft(f, init, Front(xs, 1))
           applied == CallHandle(f, << inner.value, xs[Len(xs)] >>)
       IN IF ~inner.ok THEN inner
          ELSE IF applied.ok /\ applied.value.t = "Float"
          THEN [ok |-> TRUE, value |-> applied.value]
          ELSE [ok |-> FALSE, value |-> Null]

\* the last native call was List.fold(xs, init, f) on a list, a Float and a function
FoldCalled ==
  /\ native_call.fn = "fold"
  /\ native_call.args[1].t = "List"
  /\ native_call.args[2].t = "Float"
  /\ native_call.args[3].t = "Function"

Folded_xs == heap[native_call.args[1].addr].contents

\* how many elements are folded before the callback fails, the failing one included
FoldedUntil ==
  IF FoldLeft(native_call.args[3], native_call.args[2], Folded_xs).ok THEN Len(Folded_xs)
  ELSE CHOOSE k \in 1..Len(Folded_xs) :
         /\ ~FoldLeft(native_call.args[3], native_call.args[2], SubSeq(Folded_xs, 1, k)).ok
         /\ FoldLeft(native_call.args[3], native_call.args[2], SubSeq(Folded_xs, 1, k - 1)).ok

\* C25: List.fold(xs, init, f) returns init for an empty xs and otherwise
\* f(...f(f(init, x1), x2)..., xn); f is called once per element, in list order, with
\* (accumulator, element), and fold fails as soon as f fails or returns a non-Float.
C25_FoldIsLeftFold ==
  FoldCalled =>
    LET expected == FoldLeft(native_call.args[3], native_call.args[2], Folded_xs)
    IN /\ native_call.ok = expected.ok
       /\ native_call.ok => native_call.value = expected.value
       /\ native_call.calls = [i \in 1..FoldedUntil |-> i]

\* a fold with { a, b => a - b } over two elements: (0 - 1) - 1
C25_Witness ==
  /\ FoldCalled
  /\ native_call.args[3] = Function(NativeHandle("-"))
  /\ Folded_xs = << Float(1), Float(1) >>
  /\ native_call.args[2] = Float(0)
  /\ native_call.ok
  /\ native_call.value = Float(0 - 2)

(***************************************************************************)
(* The in-place tail call starts the activation the nested call would (C26)*)
(***************************************************************************)
\* the activation call_func.execute(params) starts: the wrappers' execute down to
\* the BitFunction, then Machine::execute's index = 0, empty stack, resized locals
NestedActivation ==
  LET reached == execute_handle(PendingCall.call_func, PendingCall.params)
  IN Activation(reached.func, reached.args)

\* the call about to run is taken through the in-place path
TakenInPlace == TailCallOfBitFunction /\ CalleeIsRunningFunction

\* C26: a tail call taken through the in-place path starts the activation the nested
\* call it replaces would start: instruction 0, an empty operand stack, and the locals
\* the callee's execute builds for the same handle and arguments (the prefix of
\* unwrap_as_bit_function followed by the arguments), padded with Null to max_locals;
\* nothing of the replaced activation's stack or locals remains.
C26_InPlaceEqualsNestedCall ==
  [][TakenInPlace =>
       /\ Len(frames') = Len(frames)
       /\ frames'[Len(frames)] = NestedActivation
       /\ NestedActivation.index = 0
       /\ NestedActivation.stack = << >>
       /\ Len(NestedActivation.locals) = Func.max_locals]_vars

\* the loop of a recursive closure after an in-place tail call through the recursive
\* handle: the captured value, the handle, the argument
C26_Witness ==
  /\ input.entry = "main_recclosure" /\ input.n >= 2
  /\ Len(frames) = 2
  /\ Top.func = "cloop" /\ Top.index = 0 /\ Top.stack = << >>
  /\ Len(Top.locals) = 3
  /\ Top.locals[1] = Float(7)
  /\ Top.locals[2].t = "Function" /\ Top.locals[2].h.k = "Recursive"
  /\ Top.locals[3] = Float(input.n - 2)

(***************************************************************************)
(* The emitter's LocalAllocator run over an optimized body                 *)
(***************************************************************************)
\* the slots 0..k-1 hold the function's declared locals in order
LocalAllocator_new(args) ==
  [slots |-> [name \in {args[i].id : i \in 1..Len(args)} |->
                (CHOOSE i \in 1..Len(args) :
                   args[i].id = name /\ \A j \in (i + 1)..Len(args) : args[j].id # name) - 1],
   free_slots |-> << >>,
   max_locals |-> Len(args),
   freed_twice |-> FALSE,
   shared |-> FALSE]

MapSet(map, key, value) ==
  [k \in DOMAIN map \cup {key} |-> IF k = key THEN value ELSE map[k]]

\* lookup_local(name): the slot the name has, else the slot last freed, else a new one.
\* shared records that a recycled slot still belongs to a name in loaded_later.
lookup_local(allocator, name, loaded_later) ==
  IF name \in DOMAIN allocator.slots THEN allocator
  ELSE IF allocator.free_slots # << >>
  THEN LET slot == allocator.free_slots[Len(allocator.free_slots)]
       IN [allocator EXCEPT
             !.slots = MapSet(@, name, slot),
             !.free_slots = SubSeq(@, 1, Len(@) - 1),
             !.shared = @ \/ \E other \in DOMAIN allocator.slots \cap loaded_later :
                               allocator.slots[other] = slot]
  ELSE [allocator EXCEPT !.slots = MapSet(@, name, allocator.max_locals),
                         !.max_locals = @ + 1]

\* free(name): the name's slot is pushed onto free_slots.
\* freed_twice records that the slot was on free_slots already.
free(allocator, name) ==
  IF name \notin DOMAIN allocator.slots THEN allocator
  ELSE [allocator EXCEPT
          !.free_slots = Append(@, allocator.slots[name]),
          !.freed_twice = @ \/ \E i \in 1..Len(allocator.free_slots) :
                                 allocator.free_slots[i] = allocator.slots[name]]

\* the operations of a body in the order they are emitted: the then-body, then the
\* else-body.  later holds the names loaded after the sequence on its control path.
RECURSIVE allocate(_, _, _, _)
allocate(body, index, allocator, later) ==
  IF index > Len(body) THEN allocator
  ELSE LET ir == body[index]
           loaded_later == LoadedNames(SubSeq(body, index + 1, Len(body))) \cup later
       IN CASE ir.op \in {"LoadValue", "StoreValue"} ->
                 allocate(body, index + 1, lookup_local(allocator, ir.local, loaded_later),
                          later)
            [] ir.op = "FreeLocal" ->
                 allocate(body, index + 1, free(allocator, ir.local), later)
            [] ir.op = "Branch" ->
                 Bind(allocate(ir.then_block, 1, allocator, loaded_later), LAMBDA then_done :
                 Bind(allocate(ir.else_block, 1, then_done, loaded_later), LAMBDA else_done :
                   allocate(body, index + 1, else_done, later)))
            [] OTHER -> allocate(body, index + 1, allocator, later)

\* the allocator after the whole optimized body of a function
Allocated(name) ==
  allocate(Folded[name], 1, LocalAllocator_new(lowered[name].args), {})

(***************************************************************************)
(* Names live at the same time have different slots (C27)                  *)
(***************************************************************************)
\* C27: when the emitter's LocalAllocator goes through an optimized body, no slot is
\* on free_slots more than once and no slot is handed to a new name while another name
\* mapped to it is still loaded later on the same control path.
C27_LiveNamesHaveOwnSlots ==
  stage = "folded" =>
    \A name \in DOMAIN Folded :
      ~Allocated(name).freed_twice /\ ~Allocated(name).shared

(***************************************************************************)
(* The passes run to completion (C28)                                      *)
(***************************************************************************)
\* C28: every optimizer pass completes, without an index out of range and without an
\* unsigned underflow, on every body lowering produces: empty and one-operation Branch
\* arms and a body that is only Return included.
C28_PassesComplete == stage # "panicked"


(***************************************************************************)
(* The keys of the lowered module's function table (C29)                   *)
(***************************************************************************)
\* the parameters pop_function gives the function lowered from a declaration
LoweredArgs(ex) ==
  ex.context.closures
    \o (IF ex.context.is_recursive THEN << Parameter(ex.id, FunShape(ex)) >> ELSE << >>)
    \o ex.args
\* the table holds, under the declaration's id, the function lowered from it
StoredUnderOwnKey(ex) ==
  /\ ex.id \in DOMAIN lowered
  /\ lowered[ex.id].func_ref.name = ex.id
  /\ lowered[ex.id].args = LoweredArgs(ex)

\* C29: every function lowered from a module, nested functions and lambdas
\* included, has a key of its own in the module's function table, so the table
\* has one entry per declaration and a FunctionRef naming a declaration's key
\* finds the function lowered from that declaration.
C29_EveryFunctionHasOwnKey ==
  stage = "lowered" =>
    /\ Cardinality(DOMAIN lowered) = Len(CheckedFuns)
    /\ \A i \in 1..Len(CheckedFuns) : StoredUnderOwnKey(CheckedFuns[i])


(***************************************************************************)
(* The natives of the Core package: the shape the run time gives each, the *)
(* shape the type checker declares for it, and CallStatic on them (C30)    *)
(***************************************************************************)
float_list == shape_list(shape_float)
mapper_shape == SimpleFunctionShape(<< shape_float >>, shape_float)
reducer_shape == SimpleFunctionShape(<< shape_float, shape_float >>, shape_float)

\* the natives, module and name; "/" is built like the other arithmetic operators
\* and is left out with them where the quotient would have to be computed
ListNatives == {<< "List", name >> : name \in {"new", "append", "map", "fold"}}
Natives == {<< "Core", name >> : name \in core_functions} \cup ListNatives

\* lib_core.rs: the shape in the FunctionRef of each native
core_runtime(native) ==
  CASE native[1] = "Core" /\ native[2] \in FloatOps ->
         SimpleFunctionShape(<< shape_float, shape_float >>, shape_float)
    [] native[1] = "Core" /\ native[2] \in CompareOps ->
         SimpleFunctionShape(<< shape_float, shape_float >>, shape_boolean)
    [] native = << "List", "new" >> -> SimpleFunctionShape(<< >>, float_list)
    [] native = << "List", "append" >> ->
         SimpleFunctionShape(<< float_list, shape_float >>, float_list)
    [] native = << "List", "map" >> -> mapper_shape
    [] native = << "List", "fold" >> ->
         SimpleFunctionShape(<< float_list, shape_float, reducer_shape >>, float_list)

\* typechecker.rs: the shape the core package declares for each native
core_package(native) ==
  CASE native[1] = "Core" /\ native[2] \in FloatOps ->
         SimpleFunctionShape(<< shape_float, shape_float >>, shape_float)
    [] native[1] = "Core" /\ native[2] \in CompareOps ->
         SimpleFunctionShape(<< shape_float, shape_float >>, shape_boolean)
    [] native = << "List", "new" >> -> SimpleFunctionShape(<< >>, float_list)
    [] native = << "List", "append" >> ->
         SimpleFunctionShape(<< float_list, shape_float >>, float_list)
    [] native = << "List", "map" >> ->
         SimpleFunctionShape(<< float_list, mapper_shape >>, float_list)
    [] native = << "List", "fold" >> ->
         SimpleFunctionShape(<< float_list, shape_float, reducer_shape >>, shape_float)

\* the number of arguments the native closure asks for before it does anything else
arg_count(native) ==
  CASE native[1] = "Core" -> 2
    [] native = << "List", "new" >> -> 0
    [] native = << "List", "append" >> -> 2
    [] native = << "List", "map" >> -> 2
    [] native = << "List", "fold" >> -> 3

\* NativeFunction::execute
native_execute(native, before, args) ==
  CASE native[1] = "Core" ->
         Bind(NativeApply(native[2], args), LAMBDA r :
           IF r.ok THEN NativeOk(r.value, before) ELSE ExactErr(before))
    [] native = << "List", "new" >> -> list_new(before, args)
    [] native = << "List", "append" >> -> list_append(before, args)
    [] native = << "List", "map" >> -> list_map(before, args)
    [] native = << "List", "fold" >> ->
         Bind(list_fold(before, args), LAMBDA r :
           IF r.ok THEN NativeOk(r.value, before) ELSE NativeErr(r.msg, before))

\* how many values the operand stack holds when a native is called
MaxStack == 3
\* natives are called while the run holds fewer lists than this
MaxHeld == 2

\* the values a stack can hold: floats, the lists of the heap, functions
StackValues ==
  {Float(n) : n \in 0..MaxElem} \cup {List(addr) : addr \in 1..Len(heap)}
    \cup {Function(NativeHandle("+")),
          Function(ClosureFunction(NativeHandle("+"), << Float(1) >>))}
RECURSIVE StacksTo(_)
StacksTo(n) ==
  IF n = 0 THEN {<< >>}
  ELSE StacksTo(n - 1)
         \cup {Append(st, v) : st \in {x \in StacksTo(n - 1) : Len(x) = n - 1},
                               v \in StackValues}

\* a run that holds one list
InitNative ==
  /\ heap = << ListValue(<< Float(1), Float(0) >>, shape_float) >>
  /\ native_call = [fn |-> "none"]
  /\ VMIdle
  /\ PipeIdle
  /\ CompilerIdle
  /\ ScopeIdle
  /\ FillIdle

\* Instruction::CallStatic on a native: as many values as the callee's shape has
\* args are popped, put back in push order and handed to the native
CallStaticNative ==
  /\ Len(heap) < MaxHeld
  /\ \E native \in Natives, st \in StacksTo(MaxStack) :
       LET size == Len(core_runtime(native).args)
           params == SubSeq(st, Len(st) - size + 1, Len(st))
       IN IF Len(st) < size
          THEN /\ native_call' = [fn |-> native[2], module |-> native[1], size |-> size,
                                  args |-> << >>, ok |-> FALSE, value |-> Null,
                                  msg |-> "Invalid bytecode. Not enough args for function"]
               /\ UNCHANGED heap
          ELSE \E r \in {native_execute(native, heap, params)} :
                 /\ native_call' = [fn |-> native[2], module |-> native[1], size |-> size,
                                    args |-> params, ok |-> r.ok,
                                    value |-> IF r.ok THEN r.value ELSE Null,
                                    msg |-> IF r.ok THEN "" ELSE r.msg]
                 /\ heap' = r.heap
  /\ UNCHANGED notList

NextNative == CallStaticNative

SpecNative == InitNative /\ [][NextNative]_vars

\* the native the last call was made on
Called == << native_call.module, native_call.fn >>

\* C30: for every native of the Core package the shape of its runtime
\* FunctionRef is the shape the type checker's core package declares for it, and
\* the number of values CallStatic pops for it is the argument count the native
\* asks for.
C30_RuntimeShapeIsDeclaredShape ==
  native_call.fn # "none" =>
    /\ core_runtime(Called) = core_package(Called)
    /\ native_call.size = arg_count(Called)

====
